---- MODULE Spec2Model ----
(***************************************************************************)
(* Petition API: the cache-aside layer (generateCacheKey, getCachedData,   *)
(* setCachedData, invalidateCachePattern, getOrSetCache), the ownership    *)
(* check (requireAuthentication, requirePetitionOwnership) and the         *)
(* petition handlers (GET/POST /api/petitions, GET/PUT/DELETE              *)
(* /api/petitions/{id}) that compose them.                                 *)
(*                                                                         *)
(* Strings the code builds by concatenation are sequences of tokens, so    *)
(* that prefix matching ('petition:' against 'petitions:') and key         *)
(* equality are computed rather than assumed.                              *)
(*                                                                         *)
(* Specifications:                                                         *)
(*   Spec      concurrent requests to the petition handlers                *)
(*   SpecCache concurrent getOrSetCache calls with an arbitrary loader     *)
(*   SpecUpload POST and PUT with an image file, one request at a time     *)
(*   SpecInv   invalidateCachePattern called on its own                    *)
(*   SpecKey   generateCacheKey applied to two requests                    *)
(*   SpecETag  createCachedResponse answering two requests for a payload   *)
(*   SpecAuth  getAuthenticatedUser with every outcome of its steps        *)
(*   SpecSchema createPetitionSchema and updatePetitionSchema on one body   *)
(*   SpecBody  POST and PUT with concrete bodies, one request at a time    *)
(*   SpecNotFound GET of a petition before and after it is created         *)
(*   SpecList  the AllPetitions page: filters, paging and its loads        *)
(***************************************************************************)
EXTENDS Integers, Sequences, FiniteSets, TLC

VARIABLES
    kvBound,    \* env.CACHE is a KV namespace (FALSE: the binding is undefined)
    kv,         \* the KV namespace: key -> [data, ttl]
    petitions,  \* the petitions table: id -> row
    nextId,     \* next id the table hands out
    images,     \* the object store (env.IMAGES): set of stored file names
    pc,         \* per client: where its current request is
    req,        \* per client: the current request, its locals and its response
    quiet,      \* the client whose request started last, if it met no request in flight
    kc,         \* SpecKey: two requests and their cache keys
    call        \* a function called on its own: its arguments and its result

vars == <<kvBound, kv, petitions, nextId, images, pc, req, quiet, kc, call>>

-----------------------------------------------------------------------------
(* Bounds of the model *)

\* petitions ever created
MaxPetitions == 1

\* updates ever applied to one petition
MaxRev == 1

\* query parameters of a request in SpecKey
MaxParams == 2

\* concurrent clients
Procs == {"c1", "c2"}

Users == {"u1", "u2"}

NoUser == "anonymous"

-----------------------------------------------------------------------------
(* Strings as token sequences *)

EmptyStr == <<>>

\* 'petitions' and 'petition', the two cache-key prefixes, letter by letter
PetitionsPrefix == <<"p", "e", "t", "i", "t", "i", "o", "n", "s">>

PetitionPrefix == <<"p", "e", "t", "i", "t", "i", "o", "n">>

\* the patterns handed to invalidateCachePattern
PetitionsPattern == PetitionsPrefix \o <<":">>

PetitionPattern == PetitionPrefix \o <<":">>

\* url.pathname of the two routes
ListPath == <<"/api/petitions">>

PetitionPath(id) == <<"/api/petitions", "/", ToString(id)>>

StartsWith(s, prefix) ==
    /\ Len(prefix) <= Len(s)
    /\ SubSeq(s, 1, Len(prefix)) = prefix

\* the tokens in UTF-8 byte order (the order kv.list returns keys in)
TokenOrder ==
    << "&", "/", "/api/petitions", "1", "2", "3", "4", ":", "=", "?",
       "category[]", "e", "i", "limit", "local", "n", "national", "o", "p",
       "s", "t", "type", "u1", "u2", "userId" >>

TokenRank(t) == CHOOSE i \in 1..Len(TokenOrder) : TokenOrder[i] = t

RECURSIVE KeyLess(_, _)
KeyLess(a, b) ==
    IF a = <<>> THEN b # <<>>
    ELSE IF b = <<>> THEN FALSE
    ELSE IF Head(a) = Head(b) THEN KeyLess(Tail(a), Tail(b))
    ELSE TokenRank(Head(a)) < TokenRank(Head(b))

-----------------------------------------------------------------------------
(* generateCacheKey *)

\* a.localeCompare(b) < 0 on parameter names
NameLess(a, b) == TokenRank(a) < TokenRank(b)

\* Array.prototype.sort with the comparator ([a], [b]) => a.localeCompare(b):
\* a stable sort on the parameter NAME only
RECURSIVE InsertParam(_, _)
InsertParam(p, sorted) ==
    IF sorted = <<>> THEN <<p>>
    ELSE IF NameLess(p[1], Head(sorted)[1]) THEN <<p>> \o sorted
    ELSE <<Head(sorted)>> \o InsertParam(p, Tail(sorted))

RECURSIVE SortParams(_)
SortParams(params) ==
    IF params = <<>> THEN <<>>
    ELSE InsertParam(params[Len(params)],
                     SortParams(SubSeq(params, 1, Len(params) - 1)))

\* .map(([key, value]) => `${key}=${value}`).join('&')
RECURSIVE JoinParams(_)
JoinParams(sorted) ==
    IF sorted = <<>> THEN <<>>
    ELSE <<Head(sorted)[1], "=", Head(sorted)[2]>>
         \o (IF Tail(sorted) = <<>> THEN <<>> ELSE <<"&">> \o JoinParams(Tail(sorted)))

generateCacheKey(path, params, prefix) ==
    LET sortedParams == JoinParams(SortParams(params))
    IN prefix \o <<":">> \o path
       \o (IF sortedParams # <<>> THEN <<"?">> \o sortedParams ELSE <<>>)

-----------------------------------------------------------------------------
(* JSON values. null is JavaScript's null and the parse of the JSON text   *)
(* "null"; NoValue stands for "no value yet" in a request's locals.        *)

Null == [tag |-> "null"]

NoValue == [tag |-> "none"]

Message(text) == [tag |-> "msg", text |-> text]

\* a petition row as the table returns it
RowValue(row) == [tag |-> "row", row |-> row]

\* a listing: the rows a query returns
ListValue(rows) == [tag |-> "list", rows |-> rows]

\* an arbitrary payload of a given serialized size (SpecCache)
Blob(name, size) == [tag |-> "blob", name |-> name, size |-> size]

\* a field that is not there (undefined)
Undefined == [undefined |-> TRUE]

\* a string value
Str(chars) == [str |-> chars]

\* JSON.stringify(data): the text stored in KV
JSONstringify(v) == [json |-> v]

\* kv.get(key, 'json'): the stored text parsed back
JSONparse(text) == text.json

\* new Blob([serializedData]).size, in bytes
\* ("null" is 4 bytes; rows and listings are far below the limit)
DataSize(text) ==
    LET v == text.json
    IN CASE v.tag = "null" -> 4
         [] v.tag = "blob" -> v.size
         [] v.tag = "row" -> 64
         [] v.tag = "list" -> 2 + 64 * Cardinality(v.rows)
         [] OTHER -> 2

\* the 25MB limit of setCachedData
KVSizeLimit == 25 * 1024 * 1024

\* kv.list returns one page of at most this many keys (1000 on the platform,
\* scaled down); invalidateCachePattern reads keys.keys of the first page only
KVListLimit == 1

-----------------------------------------------------------------------------
(* The zod schemas: createPetitionSchema, updatePetitionSchema, formatZodError *)

\* a number value: an integer n
Num(n) == [number |-> "int", n |-> n]

\* the number n + 1/2
Frac(n) == [number |-> "frac", n |-> n]

NaN == [number |-> "NaN", n |-> 0]

\* a text of `lead` whitespace characters, then `core` characters that neither
\* start nor end with whitespace, then `trail` whitespace characters
Text(lead, core, trail) == [lead |-> lead, core |-> core, trail |-> trail]

IsText(v) == DOMAIN v = {"lead", "core", "trail"}

IsNumber(v) == DOMAIN v = {"number", "n"}

\* value.length
Length(t) == t.lead + t.core + t.trail

\* value.trim()
Trim(t) == Text(0, t.core, 0)

\* an issue of a field's schema; abort: the issue is not continuable (a type
\* error), so later checks and refinements do not run
Issue(message, abort) == [message |-> message, abort |-> abort]

Parsed(value, issues) == [value |-> value, issues |-> issues]

\* title: z.string({error}).min(10, ...).max(150, ...).trim()
TitleField(v) ==
    IF v = Undefined THEN Parsed(v, <<Issue("Title is required", TRUE)>>)
    ELSE IF ~IsText(v) THEN Parsed(v, <<Issue("Title must be a string", TRUE)>>)
    ELSE Parsed(Trim(v),
                (IF Length(v) < 10
                 THEN <<Issue("Title must be at least 10 characters", FALSE)>> ELSE <<>>)
                \o (IF Length(v) > 150
                    THEN <<Issue("Title must not exceed 150 characters", FALSE)>> ELSE <<>>))

\* description: z.string({error}).min(100, ...).trim()
DescriptionField(v) ==
    IF v = Undefined THEN Parsed(v, <<Issue("Description is required", TRUE)>>)
    ELSE IF ~IsText(v) THEN Parsed(v, <<Issue("Description must be a string", TRUE)>>)
    ELSE Parsed(Trim(v),
                IF Length(v) < 100
                THEN <<Issue("Description must be at least 100 characters", FALSE)>>
                ELSE <<>>)

\* type: z.enum(['local', 'national'], {error})
TypeField(v) ==
    IF v = Undefined THEN Parsed(v, <<Issue("Petition type is required", TRUE)>>)
    ELSE IF v \notin {Str("local"), Str("national")}
    THEN Parsed(v, <<Issue("Petition type must be either \"local\" or \"national\"", TRUE)>>)
    ELSE Parsed(v, <<>>)

LocationString_Untrimmed(v) ==
    IF ~IsText(v) THEN Parsed(v, <<Issue("Location must be a string", TRUE)>>)
    ELSE Parsed(v, <<>>)

\* z.string({error: 'Location must be a string'}).trim()
LocationString(v) ==
    IF ~IsText(v) THEN Parsed(v, <<Issue("Location must be a string", TRUE)>>)
    ELSE Parsed(Trim(v), <<>>)

TargetCountNumber_NoIntCheck(v) ==
    IF ~IsNumber(v) \/ v.number = "NaN"
    THEN Parsed(v, <<Issue("Target count must be a number", TRUE)>>)
    ELSE Parsed(v,
                (IF v.n < 1
                 THEN <<Issue("Target count must be at least 1", FALSE)>> ELSE <<>>)
                \o (IF v.n > 1000000 \/ (v.n = 1000000 /\ v.number = "frac")
                    THEN <<Issue("Target count must not exceed 1,000,000", FALSE)>>
                    ELSE <<>>))

\* z.number({error}).int(...).min(1, ...).max(1000000, ...)
TargetCountNumber(v) ==
    IF ~IsNumber(v) \/ v.number = "NaN"
    THEN Parsed(v, <<Issue("Target count must be a number", TRUE)>>)
    ELSE Parsed(v,
                (IF v.number = "frac"
                 THEN <<Issue("Target count must be an integer", FALSE)>> ELSE <<>>)
                \o (IF v.n < 1
                    THEN <<Issue("Target count must be at least 1", FALSE)>> ELSE <<>>)
                \o (IF v.n > 1000000 \/ (v.n = 1000000 /\ v.number = "frac")
                    THEN <<Issue("Target count must not exceed 1,000,000", FALSE)>>
                    ELSE <<>>))

\* .default(1000)
DefaultTargetCount == 1000

\* schema.default(value) on v: undefined becomes the default, anything else is
\* parsed by the schema (inner: the schema's outcome on v)
ZodDefault(value, v, inner) ==
    IF v = Undefined THEN Parsed(value, <<>>) ELSE inner

\* schema.optional() on v (inner: the schema's outcome on v): a schema that
\* itself takes undefined (a default or an optional: optin) is run on undefined
\* too, so its default is applied; otherwise undefined passes through
ZodOptional(optin, v, inner) ==
    IF optin THEN inner
    ELSE IF v = Undefined THEN Parsed(v, <<>>)
    ELSE inner

\* location: z.string(...).trim().optional()
LocationField(v) == ZodOptional(FALSE, v, LocationString(v))

TargetCountField_NoDefault(v) ==
    IF v = Undefined THEN Parsed(v, <<>>) ELSE TargetCountNumber(v)

\* target_count: z.number(...)...default(1000)
TargetCountField(v) == ZodDefault(Num(DefaultTargetCount), v, TargetCountNumber(v))

\* an array value
Array(items) == [array |-> items]

\* category_ids: z.array(z.number({error})).optional() (the issue of an element
\* is reported under the array's key, without the element's index)
CategoryIdsArray(v) ==
    IF DOMAIN v # {"array"} THEN Parsed(v, <<Issue("Invalid input", TRUE)>>)
    ELSE IF \E i \in 1..Len(v.array) : ~IsNumber(v.array[i]) \/ v.array[i].number = "NaN"
    THEN Parsed(v, <<Issue("Category ID must be a number", TRUE)>>)
    ELSE Parsed(v, <<>>)

CategoryIdsField(v) == ZodOptional(FALSE, v, CategoryIdsArray(v))

\* z.string()
PlainString(v) ==
    IF v = Undefined \/ ~(IsText(v) \/ DOMAIN v = {"str"})
    THEN Parsed(v, <<Issue("Invalid input: expected string", TRUE)>>)
    ELSE Parsed(v, <<>>)

\* image_url: z.string().optional()
ImageUrlField(v) == ZodOptional(FALSE, v, PlainString(v))

\* status: z.enum(['active', 'completed', 'closed'], {error}).optional()
StatusEnum(v) ==
    IF v \notin {Str("active"), Str("completed"), Str("closed")}
    THEN Parsed(v, <<Issue("Status must be one of: active, completed, closed", TRUE)>>)
    ELSE Parsed(v, <<>>)

StatusField(v) == ZodOptional(FALSE, v, StatusEnum(v))

\* the keys of a petition payload, in the order of the schemas' shapes
CreateKeys ==
    <<"title", "description", "type", "location", "target_count", "category_ids",
      "image_url", "created_by">>

UpdateKeys ==
    <<"title", "description", "type", "location", "target_count", "category_ids",
      "image_url", "status">>

AllKeys == {CreateKeys[i] : i \in 1..Len(CreateKeys)} \cup {"status"}

\* an object without any key
EmptyObject == [k \in AllKeys |-> Undefined]

\* the object has the key
Present(data, key) == data[key] # Undefined

\* z.object({...basePetitionFields, created_by: z.string()}): the schema of a key
CreateShape(key, v) ==
    CASE key = "title" -> TitleField(v)
      [] key = "description" -> DescriptionField(v)
      [] key = "type" -> TypeField(v)
      [] key = "location" -> LocationField(v)
      [] key = "target_count" -> TargetCountField(v)
      [] key = "category_ids" -> CategoryIdsField(v)
      [] key = "image_url" -> ImageUrlField(v)
      [] key = "created_by" -> PlainString(v)

\* z.object({...basePetitionFields, status}).partial(): every key's schema
\* wrapped in optional()
UpdateShape(key, v) ==
    CASE key = "title" -> ZodOptional(FALSE, v, TitleField(v))
      [] key = "description" -> ZodOptional(FALSE, v, DescriptionField(v))
      [] key = "type" -> ZodOptional(FALSE, v, TypeField(v))
      [] key = "location" -> ZodOptional(TRUE, v, LocationField(v))
      [] key = "target_count" -> ZodOptional(TRUE, v, TargetCountField(v))
      [] key = "category_ids" -> ZodOptional(TRUE, v, CategoryIdsField(v))
      [] key = "image_url" -> ZodOptional(TRUE, v, ImageUrlField(v))
      [] key = "status" -> ZodOptional(TRUE, v, StatusField(v))

\* the issues of the keys, each with its path, in shape order
RECURSIVE FieldIssues(_, _)
FieldIssues(key, issues) ==
    IF issues = <<>> THEN <<>>
    ELSE <<[field |-> key, message |-> Head(issues).message, abort |-> Head(issues).abort]>>
         \o FieldIssues(key, Tail(issues))

RECURSIVE CreateIssues(_, _)
CreateIssues(input, keys) ==
    IF keys = <<>> THEN <<>>
    ELSE FieldIssues(Head(keys), CreateShape(Head(keys), input[Head(keys)]).issues)
         \o CreateIssues(input, Tail(keys))

RECURSIVE UpdateIssues(_, _)
UpdateIssues(input, keys) ==
    IF keys = <<>> THEN <<>>
    ELSE FieldIssues(Head(keys), UpdateShape(Head(keys), input[Head(keys)]).issues)
         \o UpdateIssues(input, Tail(keys))

\* a refinement runs only when no issue so far is non-continuable
Aborted(issues) == \E i \in 1..Len(issues) : issues[i].abort

\* data => data.type === 'local'
\*           ? data.location !== undefined && data.location.length > 0 : true
LocationRefinement_Ignored(data) == TRUE

LocationRefinement(data) ==
    IF data.type = Str("local")
    THEN data.location # Undefined /\ Length(data.location) > 0
    ELSE TRUE

\* safeParse's result: { success: true, data } or { success: false, error }
SafeParsed(data, issues) ==
    IF issues = <<>>
    THEN [success |-> TRUE, data |-> data, issues |-> <<>>]
    ELSE [success |-> FALSE, data |-> Undefined, issues |-> issues]

\* createPetitionSchema.safeParse(input): unknown keys are stripped
createPetitionSchema(input) ==
    LET keys == {CreateKeys[i] : i \in 1..Len(CreateKeys)}
        data == [k \in AllKeys |->
                    IF k \in keys THEN CreateShape(k, input[k]).value ELSE Undefined]
        issues == CreateIssues(input, CreateKeys)
        refined == IF Aborted(issues) \/ LocationRefinement(data) THEN <<>>
                   ELSE <<[field |-> "location",
                           message |-> "Location is required for local petitions",
                           abort |-> FALSE]>>
    IN SafeParsed(data, issues \o refined)

\* updatePetitionSchema.safeParse(input)
updatePetitionSchema(input) ==
    LET keys == {UpdateKeys[i] : i \in 1..Len(UpdateKeys)}
        data == [k \in AllKeys |->
                    IF k \in keys THEN UpdateShape(k, input[k]).value ELSE Undefined]
        issues == UpdateIssues(input, UpdateKeys)
        refined == IF Aborted(issues) \/ LocationRefinement(data) THEN <<>>
                   ELSE <<[field |-> "location",
                           message |-> "Location is required when changing petition type to local",
                           abort |-> FALSE]>>
    IN SafeParsed(data, issues \o refined)

\* formatZodError(error): issue.path.join('.') and issue.message
formatZodError(issues) ==
    [i \in 1..Len(issues) |-> [field |-> issues[i].field, message |-> issues[i].message]]

-----------------------------------------------------------------------------
(* The KV namespace *)

KvKeys == DOMAIN kv

\* kv.put(key, text, {expirationTtl})
KvPut(store, key, text, ttl) ==
    [k \in (DOMAIN store) \cup {key} |->
        IF k = key THEN [data |-> text, ttl |-> ttl] ELSE store[k]]

\* kv.delete of a set of keys
KvDelete(store, keys) == [k \in (DOMAIN store) \ keys |-> store[k]]

\* kv.list({prefix}).keys: the first page of the matching keys, in key order
KvList(pattern) ==
    LET matching == {k \in KvKeys : StartsWith(k, pattern)}
    IN {k \in matching :
          Cardinality({j \in matching : KeyLess(j, k)}) < KVListLimit}

\* getCachedData(cacheKey, kv): the value, or null; it has no outcome that throws
\* (the whole body is inside try/catch). fail: kv.get rejects.
GetCachedData_NoCatch(cacheKey, fail) ==
    IF ~kvBound THEN [value |-> Null, threw |-> FALSE]
    ELSE IF fail THEN [value |-> Null, threw |-> TRUE]
    ELSE IF cacheKey \in KvKeys
         THEN [value |-> JSONparse(kv[cacheKey].data), threw |-> FALSE]
         ELSE [value |-> Null, threw |-> FALSE]

GetCachedData(cacheKey, fail) ==
    IF ~kvBound THEN [value |-> Null, threw |-> FALSE]
    ELSE IF fail THEN [value |-> Null, threw |-> FALSE]
    ELSE IF cacheKey \in KvKeys
         THEN [value |-> JSONparse(kv[cacheKey].data), threw |-> FALSE]
         ELSE [value |-> Null, threw |-> FALSE]

\* setCachedData(cacheKey, data, kv, ttlSeconds): the store afterwards.
\* fail: kv.put rejects; an undefined kv makes kv.put throw inside the try.
SetCachedData_NoSizeCheck(cacheKey, data, ttlSeconds, fail) ==
    LET serializedData == JSONstringify(data)
    IN IF ~kvBound \/ fail THEN kv
       ELSE KvPut(kv, cacheKey, serializedData, ttlSeconds)

SetCachedData_DefaultTtl(cacheKey, data, ttlSeconds, fail) ==
    LET serializedData == JSONstringify(data)
    IN IF DataSize(serializedData) > KVSizeLimit THEN kv
       ELSE IF ~kvBound \/ fail THEN kv
       ELSE KvPut(kv, cacheKey, serializedData, 300)

SetCachedData(cacheKey, data, ttlSeconds, fail) ==
    LET serializedData == JSONstringify(data)
    IN IF DataSize(serializedData) > KVSizeLimit THEN kv
       ELSE IF ~kvBound \/ fail THEN kv
       ELSE KvPut(kv, cacheKey, serializedData, ttlSeconds)

-----------------------------------------------------------------------------
(* Requests *)

Mutations == {"POST", "PUT", "DELETE"}

\* a client with no request
IdleReq ==
    [ kind        |-> "none",     \* GETLIST, GET, POST, PUT, DELETE, GOS
      id          |-> 0,          \* context.params.id
      user        |-> NoUser,     \* the identity the session resolves to
      valid       |-> FALSE,      \* the body passes the schema
      image       |-> FALSE,      \* the body carries a non-empty image file
      form        |-> FALSE,      \* the content type is multipart/form-data
      sent        |-> EmptyObject, \* the JSON body or the form's fields, as sent
      input       |-> EmptyObject, \* petitionData, as handed to safeParse
      key         |-> EmptyStr,   \* cacheKey
      ttl         |-> 0,          \* ttlSeconds
      \* observations of a direct getOrSetCache call (kind GOS):
      lookup      |-> "none",     \* what the store did on kv.get: found, absent, failed, unbound
      loaderCalls |-> 0,          \* calls of dataFetcher by this call
      loaded      |-> NoValue,    \* what dataFetcher returned
      putFail     |-> FALSE,      \* kv.put rejected or there is no store
      stored      |-> FALSE,      \* after setCachedData the key holds the data with the ttl
      changed     |-> FALSE,      \* setCachedData changed the store
      \* observations of a handler's request:
      ownerSeen   |-> "unread",   \* created_by read by the ownership check: a user, missing, error
      wrote       |-> FALSE,      \* the request wrote the petitions table
      uploaded    |-> FALSE,      \* IMAGES.put resolved
      patched     |-> FALSE,      \* the image_url patch resolved
      todo        |-> <<>>,       \* patterns still to invalidate
      called      |-> {},         \* patterns invalidateCachePattern was called with
      listed      |-> {},         \* keys.keys of the pattern being invalidated
      invFail     |-> FALSE,      \* kv.list or a kv.delete rejected
      before      |-> <<>>,       \* the store when invalidateCachePattern was called on its own
      status      |-> 0,          \* response status (0: none yet; 1: a rejected promise)
      error       |-> "",         \* response body's error
      body        |-> NoValue ]   \* response payload

\* no function is being called on its own
NoCall == [fn |-> "none"]

\* SpecKey at rest
KcIdle == [a |-> <<>>, b |-> <<>>, ka |-> EmptyStr, kb |-> EmptyStr, done |-> FALSE]

InFlight(p) == pc[p] \notin {"idle", "done"}

\* a client starts request r
Begin(p, r, at) ==
    /\ pc[p] = "idle"
    /\ pc' = [pc EXCEPT ![p] = at]
    /\ req' = [req EXCEPT ![p] = r]
    /\ quiet' = IF \A o \in Procs \ {p} : ~InFlight(o) THEN p ELSE "nobody"

\* the request of client p ran alone: it met no request in flight, and none has
\* started since
Solo(p) == quiet = p /\ pc[p] # "idle"

\* the request ends with a response
Respond(p, r, status, error, body) ==
    /\ pc' = [pc EXCEPT ![p] = "done"]
    /\ req' = [req EXCEPT ![p] =
                 [r EXCEPT !.status = status, !.error = error, !.body = body]]

\* createCachedErrorResponse(error, ...) handed a string: error instanceof Error
\* is false, so the body's error is 'Unknown error'
NotAnErrorMessage == "Unknown error"

\* the client takes its response; it may then send another request
Finish(p) ==
    /\ pc[p] = "done"
    /\ pc' = [pc EXCEPT ![p] = "idle"]
    /\ req' = [req EXCEPT ![p] = IdleReq]
    /\ UNCHANGED <<kvBound, kv, petitions, nextId, images, quiet, kc, call>>

\* an entry's expirationTtl runs out
Expire ==
    /\ \E k \in KvKeys : kv' = KvDelete(kv, {k})
    /\ UNCHANGED <<kvBound, petitions, nextId, images, pc, req, quiet, kc, call>>

-----------------------------------------------------------------------------
(* getOrSetCache: lookup, dataFetcher, setCachedData, return *)

\* const cached = await getCachedData(cacheKey, kv); if (cached !== null) return cached
GosGet(p) ==
    /\ pc[p] = "gos_get"
    /\ \E fail \in BOOLEAN :
         LET r == req[p]
             got == GetCachedData(r.key, fail)
             seen == IF ~kvBound THEN "unbound"
                     ELSE IF fail THEN "failed"
                     ELSE IF r.key \in KvKeys THEN "found" ELSE "absent"
             r1 == IF r.kind = "GOS" THEN [r EXCEPT !.lookup = seen] ELSE r
         IN IF got.threw
            THEN Respond(p, r1, 1, "KV get failed", NoValue)
            ELSE IF got.value # Null
            THEN Respond(p, r1, 200, "", got.value)
            ELSE /\ pc' = [pc EXCEPT ![p] = "gos_fetch"]
                 /\ req' = [req EXCEPT ![p] = r1]
    /\ UNCHANGED <<kvBound, kv, petitions, nextId, images, quiet, kc, call>>

\* the dataFetcher returned data
Fetched(p, data) ==
    /\ pc' = [pc EXCEPT ![p] = "gos_set"]
    /\ req' = [req EXCEPT ![p] =
                 [@ EXCEPT !.loaderCalls = IF req[p].kind = "GOS" THEN @ + 1 ELSE @,
                           !.loaded = data]]

\* the dataFetcher threw: getOrSetCache rejects with the same error
FetchThrew(p, status, error) ==
    Respond(p, [req[p] EXCEPT !.loaderCalls = IF req[p].kind = "GOS" THEN @ + 1 ELSE @],
            status, error, NoValue)

\* await setCachedData(cacheKey, data, kv, ttlSeconds); return data
GosSet(p) ==
    /\ pc[p] = "gos_set"
    /\ \E fail \in BOOLEAN :
         LET r == req[p]
             after == SetCachedData(r.key, r.loaded, r.ttl, fail)
             entry == [data |-> JSONstringify(r.loaded), ttl |-> r.ttl]
             r1 == IF r.kind = "GOS"
                   THEN [r EXCEPT !.putFail = ~kvBound \/ fail,
                                  !.changed = (after # kv),
                                  !.stored = (r.key \in DOMAIN after /\ after[r.key] = entry)]
                   ELSE r
         IN /\ kv' = after
            /\ Respond(p, r1, 200, "", r.loaded)
    /\ UNCHANGED <<kvBound, petitions, nextId, images, quiet, kc, call>>

-----------------------------------------------------------------------------
(* SpecCache: getOrSetCache called with an arbitrary dataFetcher *)

\* the calls the handlers make: the listing key with 5 * 60 seconds, a
\* single-petition key with 10 * 60
GosCalls ==
    { [key |-> generateCacheKey(ListPath, <<>>, PetitionsPrefix), ttl |-> 5 * 60],
      [key |-> generateCacheKey(PetitionPath(1), <<>>, PetitionPrefix), ttl |-> 10 * 60] }

\* what a dataFetcher may resolve to: null, a small payload, a payload of exactly
\* the limit, and one a byte above it
LoaderValues ==
    { Null, Blob("a", 2), Blob("max", KVSizeLimit), Blob("big", KVSizeLimit + 1) }

StartGos(p) ==
    /\ \E c \in GosCalls :
         Begin(p, [IdleReq EXCEPT !.kind = "GOS", !.key = c.key, !.ttl = c.ttl], "gos_get")
    /\ UNCHANGED <<kvBound, kv, petitions, nextId, images, kc, call>>

FetchGeneric(p) ==
    /\ pc[p] = "gos_fetch"
    /\ req[p].kind = "GOS"
    /\ \/ \E data \in LoaderValues : Fetched(p, data)
       \/ FetchThrew(p, 1, "loader failed")
    /\ UNCHANGED <<kvBound, kv, petitions, nextId, images, quiet, kc, call>>

InitCache ==
    /\ kvBound \in BOOLEAN
    /\ kv = <<>>
    /\ petitions = <<>>
    /\ nextId = 1
    /\ images = {}
    /\ quiet = "nobody"
    /\ pc = [p \in Procs |-> "idle"]
    /\ req = [p \in Procs |-> IdleReq]
    /\ kc = KcIdle
    /\ call = NoCall

NextCache ==
    \/ \E p \in Procs : StartGos(p)
    \/ \E p \in Procs : GosGet(p)
    \/ \E p \in Procs : FetchGeneric(p)
    \/ \E p \in Procs : GosSet(p)
    \/ \E p \in Procs : Finish(p)
    \/ Expire

SpecCache == InitCache /\ [][NextCache]_vars

-----------------------------------------------------------------------------
(* The petitions table (DatabaseService) and the object store *)

PetitionIds == 1..MaxPetitions

\* `petitions/${id}/image.${extension}`
FileName(id) == <<"petitions/", ToString(id), "/image.", "jpg">>

\* `https://images.petition.ph/${filename}`
ImageUrl(id) == <<"https://images.petition.ph/">> \o FileName(id)

\* db.createPetition(data): a new row under the next id, holding the data
CreatePetition(data) ==
    [id |-> nextId, created_by |-> data.created_by.str, rev |-> 0,
     image_url |-> EmptyStr, title |-> data.title, target_count |-> data.target_count]

\* db.updatePetition(id, data): the row with the columns that data names set to
\* data's values (of the petition's columns, title and target_count are followed)
UpdatePetition(row, data) ==
    [row EXCEPT !.rev = @ + 1,
                !.title = IF data.title # Undefined THEN data.title ELSE @,
                !.target_count = IF data.target_count # Undefined
                                 THEN data.target_count ELSE @]

\* db.getAllPetitions / db.getUserPetitions(userId)
AllRows == {petitions[i] : i \in DOMAIN petitions}

UserRows(userId) == {r \in AllRows : r.created_by = userId}

TablePut(row) ==
    [i \in (DOMAIN petitions) \cup {row.id} |-> IF i = row.id THEN row ELSE petitions[i]]

TableDelete(id) == [i \in (DOMAIN petitions) \ {id} |-> petitions[i]]

-----------------------------------------------------------------------------
(* requireAuthentication and requirePetitionOwnership *)

Permit == [status |-> 0, error |-> ""]

\* requireAuthentication: the 401 response, or the user
RequireAuthentication_AllowAnonymous(user) == Permit

RequireAuthentication(user) ==
    IF user = NoUser
    THEN [status |-> 401, error |-> "Authentication required"]
    ELSE Permit

\* requirePetitionOwnership after authentication: db.getPetitionById and the
\* comparison of created_by with user.id. dbFail: the lookup throws.
CheckOwnership_NoComparison(user, id, dbFail) ==
    IF dbFail THEN [status |-> 500, error |-> "Internal server error"]
    ELSE IF id \notin DOMAIN petitions
    THEN [status |-> 404, error |-> "Petition not found"]
    ELSE Permit

CheckOwnership(user, id, dbFail) ==
    IF dbFail THEN [status |-> 500, error |-> "Internal server error"]
    ELSE IF id \notin DOMAIN petitions
    THEN [status |-> 404, error |-> "Petition not found"]
    ELSE IF petitions[id].created_by # user
    THEN [status |-> 403, error |-> "Forbidden"]
    ELSE Permit

-----------------------------------------------------------------------------
(* invalidateCachePattern *)

\* the patterns each mutation invalidates, in order
PatternsOfPost == <<PetitionsPattern>>

PatternsOfPut == <<PetitionsPattern, PetitionPattern>>

PatternsOfDelete == <<PetitionsPattern, PetitionPattern>>

\* the current pattern is finished: on to the next, or to the success response
PatternDone(p, r) ==
    LET r1 == [r EXCEPT !.todo = Tail(r.todo), !.listed = {}]
    IN IF r1.todo = <<>>
       THEN Respond(p, r1, 200, "", r1.body)
       ELSE /\ pc' = [pc EXCEPT ![p] = "inv_list"]
            /\ req' = [req EXCEPT ![p] = r1]

\* const keys = await kv.list({ prefix: pattern }); a rejection (or an undefined
\* kv) is caught and logged
InvList_Rethrows(p) ==
    /\ pc[p] = "inv_list"
    /\ \E fail \in BOOLEAN :
         LET r == [req[p] EXCEPT !.called = @ \cup {Head(req[p].todo)}]
             keys == KvList(Head(r.todo))
         IN IF ~kvBound \/ fail
            THEN Respond(p, [r EXCEPT !.invFail = TRUE], 500, "KV list failed", NoValue)
            ELSE IF keys = {}
            THEN PatternDone(p, r)
            ELSE /\ pc' = [pc EXCEPT ![p] = "inv_delete"]
                 /\ req' = [req EXCEPT ![p] = [r EXCEPT !.listed = keys]]
    /\ UNCHANGED <<kvBound, kv, petitions, nextId, images, quiet, kc, call>>

InvList(p) ==
    /\ pc[p] = "inv_list"
    /\ \E fail \in BOOLEAN :
         LET r == [req[p] EXCEPT !.called = @ \cup {Head(req[p].todo)}]
             keys == KvList(Head(r.todo))
         IN IF ~kvBound \/ fail
            THEN PatternDone(p, [r EXCEPT !.invFail = TRUE])
            ELSE IF keys = {}
            THEN PatternDone(p, r)
            ELSE /\ pc' = [pc EXCEPT ![p] = "inv_delete"]
                 /\ req' = [req EXCEPT ![p] = [r EXCEPT !.listed = keys]]
    /\ UNCHANGED <<kvBound, kv, petitions, nextId, images, quiet, kc, call>>

\* await Promise.all(keys.keys.map(key => kv.delete(key.name))): every delete is
\* issued; those in `failed` reject, which is caught and logged
InvDelete(p) ==
    /\ pc[p] = "inv_delete"
    /\ \E failed \in SUBSET req[p].listed :
         /\ kv' = KvDelete(kv, req[p].listed \ failed)
         /\ PatternDone(p, [req[p] EXCEPT !.invFail = @ \/ (failed # {})])
    /\ UNCHANGED <<kvBound, petitions, nextId, images, quiet, kc, call>>

\* the handler goes on to invalidate its patterns
Invalidate(p, r, patterns) ==
    /\ pc' = [pc EXCEPT ![p] = "inv_list"]
    /\ req' = [req EXCEPT ![p] = [r EXCEPT !.todo = patterns]]

-----------------------------------------------------------------------------
(* GET /api/petitions and GET /api/petitions/{id} *)

\* the query strings of the listing requests
ListQueries == { <<>>, <<<<"userId", "u1">>>> }

\* url.searchParams.get('userId'), "" when absent
UserIdOf(query) ==
    IF \E i \in 1..Len(query) : query[i][1] = "userId"
    THEN query[CHOOSE i \in 1..Len(query) : query[i][1] = "userId"][2]
    ELSE ""

StartGetList_CacheFirst(p) ==
    /\ \E query \in ListQueries, user \in Users \cup {NoUser} :
         LET r == [IdleReq EXCEPT !.kind = "GETLIST",
                                  !.user = user,
                                  !.key = generateCacheKey(ListPath, query, PetitionsPrefix),
                                  !.ttl = 5 * 60]
         IN /\ UserIdOf(query) = "" => user = NoUser
            /\ Begin(p, r, "gos_get")
    /\ UNCHANGED <<kvBound, kv, petitions, nextId, images, kc, call>>

\* GET /api/petitions: the key is computed, a userId query without an
\* authenticated user is answered 401, otherwise getOrSetCache starts
StartGetList(p) ==
    /\ \E query \in ListQueries, user \in Users \cup {NoUser} :
         LET r == [IdleReq EXCEPT !.kind = "GETLIST",
                                  !.user = user,
                                  !.key = generateCacheKey(ListPath, query, PetitionsPrefix),
                                  !.ttl = 5 * 60]
         IN /\ UserIdOf(query) = "" => user = NoUser
            /\ IF UserIdOf(query) # "" /\ user = NoUser
               THEN Begin(p, [r EXCEPT !.status = 401,
                                       !.error = NotAnErrorMessage],
                          "done")
               ELSE Begin(p, r, "gos_get")
    /\ UNCHANGED <<kvBound, kv, petitions, nextId, images, kc, call>>

\* the query string a listing key was computed from
QueryOfKey(key) ==
    CHOOSE query \in ListQueries : generateCacheKey(ListPath, query, PetitionsPrefix) = key

\* () => db.getUserPetitions(userId) / () => db.getAllPetitions(...)
FetchList(p) ==
    /\ pc[p] = "gos_fetch"
    /\ req[p].kind = "GETLIST"
    /\ \E dbFail \in BOOLEAN :
         LET userId == UserIdOf(QueryOfKey(req[p].key))
         IN IF dbFail
            THEN FetchThrew(p, 500, "database error")
            ELSE Fetched(p, ListValue(IF userId # "" THEN UserRows(userId) ELSE AllRows))
    /\ UNCHANGED <<kvBound, kv, petitions, nextId, images, quiet, kc, call>>

\* GET /api/petitions/{id}
StartGet(p) ==
    /\ \E id \in PetitionIds :
         Begin(p, [IdleReq EXCEPT !.kind = "GET",
                                  !.id = id,
                                  !.key = generateCacheKey(PetitionPath(id), <<>>, PetitionPrefix),
                                  !.ttl = 10 * 60],
               "gos_get")
    /\ UNCHANGED <<kvBound, kv, petitions, nextId, images, kc, call>>

FetchPetition_ReturnsNull(p) ==
    /\ pc[p] = "gos_fetch"
    /\ req[p].kind = "GET"
    /\ \E dbFail \in BOOLEAN :
         IF dbFail
         THEN FetchThrew(p, 500, "database error")
         ELSE IF req[p].id \notin DOMAIN petitions
         THEN Fetched(p, Null)
         ELSE Fetched(p, RowValue(petitions[req[p].id]))
    /\ UNCHANGED <<kvBound, kv, petitions, nextId, images, quiet, kc, call>>

\* async () => { const result = await db.getPetitionById(petitionId);
\*               if (!result) throw new Error('Petition not found'); return result }
\* the handler's catch answers a thrown error with status 500
FetchPetition(p) ==
    /\ pc[p] = "gos_fetch"
    /\ req[p].kind = "GET"
    /\ \E dbFail \in BOOLEAN :
         IF dbFail
         THEN FetchThrew(p, 500, "database error")
         ELSE IF req[p].id \notin DOMAIN petitions
         THEN FetchThrew(p, 500, "Petition not found")
         ELSE Fetched(p, RowValue(petitions[req[p].id]))
    /\ UNCHANGED <<kvBound, kv, petitions, nextId, images, quiet, kc, call>>

-----------------------------------------------------------------------------
(* Image upload, shared by POST and PUT *)

PatternsOf(kind) ==
    CASE kind = "POST" -> PatternsOfPost
      [] kind = "PUT" -> PatternsOfPut
      [] OTHER -> PatternsOfDelete

AfterWrite_PatchFirst(p, r) ==
    IF r.image
    THEN /\ pc' = [pc EXCEPT ![p] = "img_patch"]
         /\ req' = [req EXCEPT ![p] = r]
    ELSE Invalidate(p, r, PatternsOf(r.kind))

\* after the row is written: upload if an image came with the body
AfterWrite(p, r) ==
    IF r.image
    THEN /\ pc' = [pc EXCEPT ![p] = "img_put"]
         /\ req' = [req EXCEPT ![p] = r]
    ELSE Invalidate(p, r, PatternsOf(r.kind))

ImgPut_FailureFails(p) ==
    /\ pc[p] = "img_put"
    /\ \E fail \in BOOLEAN :
         IF fail
         THEN /\ Respond(p, req[p], 500, "upload failed", NoValue)
              /\ UNCHANGED images
         ELSE /\ images' = images \cup {FileName(req[p].id)}
              /\ pc' = [pc EXCEPT ![p] = "img_patch"]
              /\ req' = [req EXCEPT ![p] = [@ EXCEPT !.uploaded = TRUE]]
    /\ UNCHANGED <<kvBound, kv, petitions, nextId, quiet, kc, call>>

\* await context.env.IMAGES.put(filename, ...); a failure is caught: no patch
ImgPut(p) ==
    /\ pc[p] = "img_put"
    /\ \E fail \in BOOLEAN :
         IF fail
         THEN /\ Invalidate(p, req[p], PatternsOf(req[p].kind))
              /\ UNCHANGED images
         ELSE /\ images' = images \cup {FileName(req[p].id)}
              /\ pc' = [pc EXCEPT ![p] = "img_patch"]
              /\ req' = [req EXCEPT ![p] = [@ EXCEPT !.uploaded = TRUE]]
    /\ UNCHANGED <<kvBound, kv, petitions, nextId, quiet, kc, call>>

\* await db.updatePetition(id, { image_url: imageUrl }); petition.image_url = imageUrl
\* a failure is caught: the response keeps the row without the image
ImgPatch(p) ==
    /\ pc[p] = "img_patch"
    /\ \E dbFail \in BOOLEAN :
         LET r == req[p]
         IN IF dbFail \/ r.id \notin DOMAIN petitions
            THEN /\ Invalidate(p, r, PatternsOf(r.kind))
                 /\ UNCHANGED petitions
            ELSE /\ petitions' = TablePut([petitions[r.id] EXCEPT !.image_url = ImageUrl(r.id)])
                 /\ Invalidate(p, [r EXCEPT !.patched = TRUE,
                                            !.body = RowValue([r.body.row EXCEPT
                                                         !.image_url = ImageUrl(r.id)])],
                               PatternsOf(r.kind))
    /\ UNCHANGED <<kvBound, kv, nextId, images, quiet, kc, call>>

-----------------------------------------------------------------------------
(* POST /api/petitions *)

\* clients that are about to create a row
Creating == {q \in Procs : pc[q] = "post_create"}

\* no other client has a request under way or a response pending
Alone(p) == \A o \in Procs \ {p} : pc[o] = "idle"

ValidationFailed_WithoutErrors(issues) ==
    [tag |-> "validation", message |-> "Validation failed", errors |-> <<>>]

\* createValidationErrorResponse(formatZodError(validationResult.error), ...)
ValidationFailed(issues) ==
    [tag |-> "validation", message |-> "Validation failed",
     errors |-> formatZodError(issues)]

\* getStringField(formData, name): the trimmed text, undefined when it is empty
\* or the field is missing (a value such as 'local' has nothing to trim)
getStringField(v) ==
    IF IsText(v) THEN IF v.core = 0 THEN Undefined ELSE Trim(v)
    ELSE v

\* getIntegerField(formData, name): parseInt of the field's text; a form field
\* that spells the number n or n + 1/2 parses to n
getIntegerField(v) ==
    IF IsNumber(v) /\ v.number \in {"int", "frac"} THEN Num(v.n) ELSE Undefined

\* value ?? fallback
OrElse(v, fallback) == IF v = Undefined THEN fallback ELSE v

PetitionData_KeepsCreatedBy(body, user, form) ==
    IF form
    THEN [EmptyObject EXCEPT
            !.title = OrElse(getStringField(body.title), Text(0, 0, 0)),
            !.description = OrElse(getStringField(body.description), Text(0, 0, 0)),
            !.type = OrElse(getStringField(body.type), Str("national")),
            !.location = getStringField(body.location),
            !.target_count = getIntegerField(body.target_count),
            !.created_by = OrElse(body.created_by, Str(user)),
            !.category_ids = body.category_ids,
            !.image_url = Text(0, 0, 0)]
    ELSE [body EXCEPT !.created_by = OrElse(body.created_by, Str(user))]

\* petitionData of a POST. Form: built from the form's fields, with created_by:
\* user.id. JSON: the body with created_by set to user.id
PetitionData(body, user, form) ==
    IF form
    THEN [EmptyObject EXCEPT
            !.title = OrElse(getStringField(body.title), Text(0, 0, 0)),
            !.description = OrElse(getStringField(body.description), Text(0, 0, 0)),
            !.type = OrElse(getStringField(body.type), Str("national")),
            !.location = getStringField(body.location),
            !.target_count = getIntegerField(body.target_count),
            !.created_by = Str(user),
            !.category_ids = body.category_ids,
            !.image_url = Text(0, 0, 0)]
    ELSE [body EXCEPT !.created_by = Str(user)]

\* petitionData of a PUT. Form: the fields that were provided. JSON: the body
UpdateData(body, form) ==
    IF form
    THEN [EmptyObject EXCEPT
            !.title = getStringField(body.title),
            !.description = getStringField(body.description),
            !.type = getStringField(body.type),
            !.location = getStringField(body.location),
            !.target_count = getIntegerField(body.target_count),
            !.category_ids = body.category_ids,
            !.status = getStringField(body.status)]
    ELSE body

\* a body that passes createPetitionSchema, and one that does not
ValidCreateBody ==
    [EmptyObject EXCEPT !.title = Text(0, 10, 0), !.description = Text(0, 100, 0),
                        !.type = Str("national")]

InvalidCreateBody == [ValidCreateBody EXCEPT !.title = Text(0, 9, 0)]

PostBodies == {ValidCreateBody, InvalidCreateBody}

\* bodies of a POST: the title valid or too short; target_count omitted, valid
\* or out of range; with or without a created_by of the sender's choosing
CreateBodies ==
    { [ValidCreateBody EXCEPT !.title = t, !.target_count = n, !.created_by = c] :
        t \in {Text(0, 10, 0), Text(0, 9, 0)},
        n \in {Undefined, Num(500), Num(0)},
        c \in {Undefined, Str("u2")} }

\* createPetitionSchema.safeParse(petitionData) for the petitionData of every
\* request, computed once
createValidationResult ==
    [input \in {PetitionData(body, user, form) : body \in PostBodies \cup CreateBodies,
                                                user \in Users, form \in BOOLEAN}
        |-> createPetitionSchema(input)]

\* the user check, then the schema; a valid body goes on to db.createPetition.
\* form: the content type is multipart/form-data; image: the form carries a
\* non-empty image file
PostRequest(p, form, image, bodies) ==
    /\ \/ Begin(p, [IdleReq EXCEPT !.kind = "POST", !.form = form, !.image = image,
                                   !.status = 401, !.error = NotAnErrorMessage], "done")
       \/ \E user \in Users, body \in bodies :
            LET input == PetitionData(body, user, form)
                validationResult == createValidationResult[input]
                r == [IdleReq EXCEPT !.kind = "POST", !.user = user, !.form = form,
                                     !.image = image, !.sent = body, !.input = input,
                                     !.valid = validationResult.success]
            IN IF ~validationResult.success
               THEN Begin(p, [r EXCEPT !.status = 422,
                                       !.body = ValidationFailed(validationResult.issues)],
                          "done")
               ELSE /\ nextId + Cardinality(Creating) <= MaxPetitions
                    /\ Begin(p, r, "post_create")
    /\ UNCHANGED <<kvBound, kv, petitions, nextId, images, kc, call>>

\* POST with a JSON body
StartPost(p) == PostRequest(p, FALSE, FALSE, PostBodies)

\* POST with an image file, sent while no other request is under way
StartPostUpload(p) == Alone(p) /\ PostRequest(p, TRUE, TRUE, PostBodies)

\* Step 1: const petition = await db.createPetition({...validatedData, image_url: ''})
PostCreate(p) ==
    /\ pc[p] = "post_create"
    /\ \E dbFail \in BOOLEAN :
         IF dbFail
         THEN /\ Respond(p, req[p], 500, "database error", NoValue)
              /\ UNCHANGED <<petitions, nextId>>
         ELSE LET validatedData == createValidationResult[req[p].input].data
                  row == CreatePetition(validatedData)
              IN /\ petitions' = TablePut(row)
                 /\ nextId' = nextId + 1
                 /\ AfterWrite(p, [req[p] EXCEPT !.id = row.id, !.wrote = TRUE,
                                                 !.body = RowValue(row)])
    /\ UNCHANGED <<kvBound, kv, images, quiet, kc, call>>

-----------------------------------------------------------------------------
(* PUT and DELETE /api/petitions/{id}: ownership check, then the handler *)

\* requests in flight that may still update petition id
Updating(id) ==
    {q \in Procs : /\ InFlight(q)
                   /\ req[q].kind = "PUT" /\ req[q].id = id
                   /\ req[q].valid /\ ~req[q].wrote}

Rev(id) == IF id \in DOMAIN petitions THEN petitions[id].rev ELSE 0

\* the request is authenticated (requireAuthentication); an identified user goes
\* on to the ownership lookup. image: the body carries a non-empty image file
\* a body that passes updatePetitionSchema, and one that does not
ValidUpdateBody == [EmptyObject EXCEPT !.title = Text(0, 10, 0)]

InvalidUpdateBody == [EmptyObject EXCEPT !.title = Text(0, 9, 0)]

PutBodies == {ValidUpdateBody, InvalidUpdateBody}

\* bodies of a PUT: empty, a title only, an invalid title, an invalid
\* target_count
UpdateBodies ==
    { EmptyObject,
      [EmptyObject EXCEPT !.title = Text(0, 12, 0)],
      [EmptyObject EXCEPT !.title = Text(0, 9, 0)],
      [EmptyObject EXCEPT !.target_count = Num(0)] }

\* updatePetitionSchema.safeParse(petitionData) for the petitionData of every
\* request, computed once
updateValidationResult ==
    [input \in {UpdateData(body, form) : body \in PutBodies \cup UpdateBodies \cup {EmptyObject},
                                         form \in BOOLEAN}
        |-> updatePetitionSchema(input)]

\* (the body is read once the ownership check has passed)
PutRequest(p, form, image, bodies) ==
    /\ \E id \in PetitionIds, user \in Users \cup {NoUser} :
         \E body \in IF user = NoUser THEN {EmptyObject} ELSE bodies :
            LET input == UpdateData(body, form)
                r == [IdleReq EXCEPT !.kind = "PUT", !.id = id, !.user = user,
                                     !.form = form, !.image = image,
                                     !.sent = body, !.input = input,
                                     !.valid = /\ user # NoUser
                                               /\ updateValidationResult[input].success]
                auth == RequireAuthentication(user)
            IN IF auth.status # 0
               THEN Begin(p, [r EXCEPT !.status = auth.status, !.error = auth.error], "done")
               ELSE /\ r.valid => Rev(id) + Cardinality(Updating(id)) < MaxRev
                    /\ Begin(p, r, "own_lookup")
    /\ UNCHANGED <<kvBound, kv, petitions, nextId, images, kc, call>>

\* PUT with a JSON body
StartPut(p) == PutRequest(p, FALSE, FALSE, PutBodies)

\* PUT with an image file, sent while no other request is under way
StartPutUpload(p) == Alone(p) /\ PutRequest(p, TRUE, TRUE, PutBodies)

StartDelete(p) ==
    /\ \E id \in PetitionIds, user \in Users \cup {NoUser} :
         LET r == [IdleReq EXCEPT !.kind = "DELETE", !.id = id, !.user = user]
             auth == RequireAuthentication(user)
         IN IF auth.status # 0
            THEN Begin(p, [r EXCEPT !.status = auth.status, !.error = auth.error], "done")
            ELSE Begin(p, r, "own_lookup")
    /\ UNCHANGED <<kvBound, kv, petitions, nextId, images, kc, call>>

\* requirePetitionOwnership: db.getPetitionById and the created_by comparison
OwnLookup(p) ==
    /\ pc[p] = "own_lookup"
    /\ \E dbFail \in BOOLEAN :
         LET r == req[p]
             verdict == CheckOwnership(r.user, r.id, dbFail)
             seen == IF dbFail THEN "error"
                     ELSE IF r.id \in DOMAIN petitions
                     THEN petitions[r.id].created_by ELSE "missing"
             r1 == [r EXCEPT !.ownerSeen = seen]
         IN IF verdict.status # 0
            THEN Respond(p, r1, verdict.status, verdict.error, NoValue)
            ELSE /\ pc' = [pc EXCEPT ![p] = IF r.kind = "PUT" THEN "put_update" ELSE "del_db"]
                 /\ req' = [req EXCEPT ![p] = r1]
    /\ UNCHANGED <<kvBound, kv, petitions, nextId, images, quiet, kc, call>>

\* updatePetitionSchema.safeParse, then
\* Step 1: const updatedPetition = await db.updatePetition(petitionId, validatedData)
\* (an update of a row that no longer exists is taken to throw, like a database error)
PutUpdate(p) ==
    /\ pc[p] = "put_update"
    /\ \E dbFail \in BOOLEAN :
         LET r == req[p]
             validationResult == updateValidationResult[r.input]
         IN IF ~r.valid
            THEN /\ Respond(p, r, 422, "", ValidationFailed(validationResult.issues))
                 /\ UNCHANGED petitions
            ELSE IF dbFail \/ r.id \notin DOMAIN petitions
            THEN /\ Respond(p, r, 500, "database error", NoValue)
                 /\ UNCHANGED petitions
            ELSE LET row == UpdatePetition(petitions[r.id], validationResult.data)
                 IN /\ petitions' = TablePut(row)
                    /\ AfterWrite(p, [r EXCEPT !.wrote = TRUE, !.body = RowValue(row)])
    /\ UNCHANGED <<kvBound, kv, nextId, images, quiet, kc, call>>

\* await db.deletePetition(petitionId)
DelDb(p) ==
    /\ pc[p] = "del_db"
    /\ \E dbFail \in BOOLEAN :
         IF dbFail
         THEN /\ Respond(p, req[p], 500, "database error", NoValue)
              /\ UNCHANGED petitions
         ELSE /\ petitions' = TableDelete(req[p].id)
              /\ Invalidate(p, [req[p] EXCEPT !.wrote = TRUE,
                                              !.body = Message("Petition deleted successfully")],
                            PatternsOfDelete)
    /\ UNCHANGED <<kvBound, kv, nextId, images, quiet, kc, call>>

-----------------------------------------------------------------------------
(* Spec: the handlers under concurrent requests, bodies without image file *)

Init ==
    /\ kvBound \in BOOLEAN
    /\ kv = <<>>
    /\ petitions = <<>>
    /\ nextId = 1
    /\ images = {}
    /\ quiet = "nobody"
    /\ pc = [p \in Procs |-> "idle"]
    /\ req = [p \in Procs |-> IdleReq]
    /\ kc = KcIdle
    /\ call = NoCall

Next ==
    \/ \E p \in Procs : StartGetList(p)
    \/ \E p \in Procs : StartGet(p)
    \/ \E p \in Procs : StartPost(p)
    \/ \E p \in Procs : StartPut(p)
    \/ \E p \in Procs : StartDelete(p)
    \/ \E p \in Procs : GosGet(p)
    \/ \E p \in Procs : FetchList(p)
    \/ \E p \in Procs : FetchPetition(p)
    \/ \E p \in Procs : GosSet(p)
    \/ \E p \in Procs : PostCreate(p)
    \/ \E p \in Procs : OwnLookup(p)
    \/ \E p \in Procs : PutUpdate(p)
    \/ \E p \in Procs : DelDb(p)
    \/ \E p \in Procs : InvList(p)
    \/ \E p \in Procs : InvDelete(p)
    \/ \E p \in Procs : Finish(p)
    \/ Expire

Spec == Init /\ [][Next]_vars

-----------------------------------------------------------------------------
(* SpecUpload: POST and PUT with an image file, one request at a time *)

\* GET /api/petitions/{id}, sent while no other request is under way
StartGetAlone(p) == Alone(p) /\ StartGet(p)

NextUpload ==
    \/ \E p \in Procs : StartGetAlone(p)
    \/ \E p \in Procs : GosGet(p)
    \/ \E p \in Procs : FetchPetition(p)
    \/ \E p \in Procs : GosSet(p)
    \/ \E p \in Procs : StartPostUpload(p)
    \/ \E p \in Procs : StartPutUpload(p)
    \/ \E p \in Procs : PostCreate(p)
    \/ \E p \in Procs : OwnLookup(p)
    \/ \E p \in Procs : PutUpdate(p)
    \/ \E p \in Procs : ImgPut(p)
    \/ \E p \in Procs : ImgPatch(p)
    \/ \E p \in Procs : InvList(p)
    \/ \E p \in Procs : InvDelete(p)
    \/ \E p \in Procs : Finish(p)

SpecUpload == Init /\ [][NextUpload]_vars

\* client p's POST or PUT wrote its row and is past the image step, which
\* failed: IMAGES.put or the image_url patch threw
ImageStepFailed(p) ==
    /\ req[p].kind \in {"POST", "PUT"}
    /\ req[p].image
    /\ req[p].wrote
    /\ pc[p] \in {"inv_list", "inv_delete", "done"}
    /\ ~req[p].patched

\* the patterns in a sequence
PatternSet(patterns) == {patterns[i] : i \in 1..Len(patterns)}

\* C21: when the upload or the image_url patch of a POST or PUT fails, the row
\* written in step 1 stays, invalidateCachePattern is still called for each of
\* the handler's patterns and the response is a success carrying the row; the
\* row of a create is left with an empty image URL.
C21_ImageFailureAbsorbed ==
    \A p \in Procs :
        ImageStepFailed(p) =>
            /\ req[p].id \in DOMAIN petitions
            /\ req[p].body = RowValue(petitions[req[p].id])
            /\ req[p].kind = "POST" => petitions[req[p].id].image_url = EmptyStr
            /\ pc[p] = "done" =>
                  /\ req[p].status = 200
                  /\ req[p].called = PatternSet(PatternsOf(req[p].kind))

\* a create whose upload went through and whose patch failed
C21_Witness ==
    \E p \in Procs :
        /\ ImageStepFailed(p)
        /\ pc[p] = "done"
        /\ req[p].kind = "POST"
        /\ req[p].uploaded
        /\ FileName(req[p].id) \in images
        /\ req[p].status = 200
        /\ petitions[req[p].id].image_url = EmptyStr

-----------------------------------------------------------------------------
(* SpecBody: POST and PUT with bodies on either side of the schemas' checks, *)
(* with or without an image file, one request at a time                      *)

\* the content types and image files of a request: JSON, a form without an
\* image file, a form with one
Contents == {<<FALSE, FALSE>>, <<TRUE, FALSE>>, <<TRUE, TRUE>>}

StartPostBody(p) ==
    Alone(p) /\ \E c \in Contents : PostRequest(p, c[1], c[2], CreateBodies)

StartPutBody(p) ==
    Alone(p) /\ \E c \in Contents : PutRequest(p, c[1], c[2], UpdateBodies)

NextBody ==
    \/ \E p \in Procs : StartGetAlone(p)
    \/ \E p \in Procs : GosGet(p)
    \/ \E p \in Procs : FetchPetition(p)
    \/ \E p \in Procs : GosSet(p)
    \/ \E p \in Procs : StartPostBody(p)
    \/ \E p \in Procs : StartPutBody(p)
    \/ \E p \in Procs : PostCreate(p)
    \/ \E p \in Procs : OwnLookup(p)
    \/ \E p \in Procs : PutUpdate(p)
    \/ \E p \in Procs : ImgPut(p)
    \/ \E p \in Procs : ImgPatch(p)
    \/ \E p \in Procs : InvList(p)
    \/ \E p \in Procs : InvDelete(p)
    \/ \E p \in Procs : Finish(p)

SpecBody == Init /\ [][NextBody]_vars

\* the POST of client p has created its row
Created(p) == req[p].kind = "POST" /\ req[p].wrote

\* the request of client p was answered with success
Succeeded(p) == pc[p] = "done" /\ req[p].status = 200

\* C17: a create payload that omits target_count is stored and returned with
\* target_count 1000; a provided valid target_count is stored and returned as
\* it was sent.
C17_TargetCountDefault ==
    \A p \in Procs :
        Created(p) =>
            LET sent == req[p].input.target_count
                kept == IF sent = Undefined THEN Num(1000) ELSE sent
            IN /\ createPetitionSchema(req[p].input).data.target_count = kept
               /\ req[p].id \in DOMAIN petitions
               /\ petitions[req[p].id].target_count = kept
               /\ Succeeded(p) => req[p].body.row.target_count = kept

C17_Witness ==
    \E p \in Procs :
        /\ Created(p)
        /\ Succeeded(p)
        /\ req[p].input.target_count = Undefined
        /\ petitions[req[p].id].target_count = Num(1000)
        /\ req[p].body.row.target_count = Num(1000)

\* the step is db.updatePetition of client p's PUT, and it succeeds
PutWrites(p) ==
    /\ pc[p] = "put_update"
    /\ req[p].kind = "PUT"
    /\ ~req[p].wrote
    /\ req'[p].wrote

\* C18: the validated data of an update holds exactly the keys of the body, so
\* the PUT leaves target_count (and the title) of the row as it was when the
\* body does not name it.
C18_UpdateWritesOnlySentFields ==
    [][\A p \in Procs :
          PutWrites(p) =>
              LET body == req[p].input
                  validatedData == updatePetitionSchema(body).data
                  id == req[p].id
              IN /\ \A key \in AllKeys : Present(validatedData, key) <=> Present(body, key)
                 /\ ~Present(body, "target_count")
                       => petitions'[id].target_count = petitions[id].target_count
                 /\ ~Present(body, "title") => petitions'[id].title = petitions[id].title]_vars

\* the issues of the body of client p's request under its handler's schema
BodyIssues(p) ==
    IF req[p].kind = "POST" THEN createPetitionSchema(req[p].input).issues
    ELSE updatePetitionSchema(req[p].input).issues

\* client p's request is a POST or PUT of an identified user with a body that
\* fails the handler's schema
BodyFails(p) ==
    /\ pc[p] # "idle"
    /\ req[p].kind \in {"POST", "PUT"}
    /\ req[p].user # NoUser
    /\ BodyIssues(p) # <<>>

\* the handler has validated the body: at once in a POST, after the ownership
\* check has let the request through in a PUT
Validated(p) ==
    /\ pc[p] = "done"
    /\ req[p].kind = "PUT" => req[p].ownerSeen = req[p].user

\* C20: a POST or PUT whose body fails validation is answered with status 422
\* and {message: 'Validation failed', errors: [{field, message}, ...]}, and the
\* request writes no row, uploads no object and invalidates no cache entry.
C20_InvalidBodyRejected ==
    /\ [](\A p \in Procs :
            BodyFails(p) =>
                /\ ~req[p].wrote /\ ~req[p].uploaded
                /\ req[p].called = {} /\ req[p].todo = <<>>
                /\ Validated(p) =>
                      /\ req[p].status = 422
                      /\ req[p].body.tag = "validation"
                      /\ req[p].body.message = "Validation failed"
                      /\ req[p].body.errors = formatZodError(BodyIssues(p))
                      /\ Len(req[p].body.errors) >= 1)
    /\ [][\A p \in Procs : BodyFails(p) => UNCHANGED <<petitions, nextId, images, kv>>]_vars

\* the owner's PUT with a title that is too short and an image file: 422 with
\* the title's error, and nothing stored
C20_Witness ==
    \E p \in Procs :
        /\ BodyFails(p)
        /\ Validated(p)
        /\ req[p].kind = "PUT"
        /\ req[p].image
        /\ req[p].status = 422
        /\ req[p].body.errors =
              << [field |-> "title", message |-> "Title must be at least 10 characters"] >>
        /\ images = {}
        /\ petitions[req[p].id].rev = 0

\* C22: a GET of /api/petitions/{id} for an id that has no petition row is
\* answered with status 404.
C22_MissingPetitionIs404 ==
    \A p \in Procs :
        (req[p].kind = "GET" /\ pc[p] = "done" /\ req[p].id \notin DOMAIN petitions)
            => req[p].status = 404

\* C23: a POST without an authenticated user is answered 401 with the error
\* 'Authentication required'; it creates no row, uploads no image and
\* invalidates no cache entry.
C23_AnonymousPostRefused ==
    \A p \in Procs :
        (req[p].kind = "POST" /\ req[p].user = NoUser /\ pc[p] # "idle") =>
            /\ pc[p] = "done"
            /\ req[p].status = 401
            /\ req[p].error = "Authentication required"
            /\ ~req[p].wrote /\ ~req[p].uploaded /\ req[p].called = {}

\* C25: the row a POST creates has created_by equal to the authenticated
\* user's id, whatever created_by the body carries, for a JSON body and for a
\* form.
C25_CreatedByIsUser ==
    \A p \in Procs :
        Created(p) =>
            /\ req[p].input.created_by = Str(req[p].user)
            /\ req[p].id \in DOMAIN petitions
            /\ petitions[req[p].id].created_by = req[p].user
            /\ Succeeded(p) => req[p].body.row.created_by = req[p].user

\* u1 posts a JSON body that names u2 as created_by
C25_Witness ==
    \E p \in Procs :
        /\ Created(p)
        /\ Succeeded(p)
        /\ ~req[p].form
        /\ req[p].user = "u1"
        /\ req[p].sent.created_by = Str("u2")
        /\ petitions[req[p].id].created_by = "u1"

-----------------------------------------------------------------------------
(* Response headers, beside the CORS headers *)

\* createCachedResponse, status 200
CachedResponseHeaders ==
    [names |-> {"Content-Type", "ETag", "Cache-Control", "Last-Modified"},
     cacheControl |-> "public, max-age"]

\* createSuccessResponse
SuccessResponseHeaders == [names |-> {"Content-Type"}, cacheControl |-> ""]

\* createCachedErrorResponse and createValidationErrorResponse
CachedErrorResponseHeaders ==
    [names |-> {"Content-Type", "Cache-Control"},
     cacheControl |-> "no-cache, no-store, must-revalidate"]

\* the responses requireAuthentication and requirePetitionOwnership build
OwnershipResponseHeaders == [names |-> {"Content-Type"}, cacheControl |-> ""]

\* the response of request r came from the ownership check
FromOwnershipCheck(r) ==
    /\ r.kind \in {"PUT", "DELETE"}
    /\ \/ r.status \in {401, 403, 404}
       \/ r.status = 500 /\ r.error = "Internal server error"

\* the headers of the response of request r, by the helper that built it
ResponseHeaders(r) ==
    IF r.status = 200
    THEN IF r.kind \in {"GET", "GETLIST"}
         THEN CachedResponseHeaders ELSE SuccessResponseHeaders
    ELSE IF FromOwnershipCheck(r) THEN OwnershipResponseHeaders
    ELSE CachedErrorResponseHeaders

\* C24: every success response of the petition handlers carries ETag,
\* Cache-Control and Last-Modified, and every error or validation response
\* carries a no-cache Cache-Control.
C24_ResponseHeaders ==
    \A p \in Procs :
        (pc[p] = "done" /\ req[p].kind \in {"GET", "GETLIST", "POST", "PUT", "DELETE"}) =>
            LET headers == ResponseHeaders(req[p])
            IN IF req[p].status = 200
               THEN {"ETag", "Cache-Control", "Last-Modified"} \subseteq headers.names
               ELSE /\ "Cache-Control" \in headers.names
                    /\ headers.cacheControl = "no-cache, no-store, must-revalidate"

-----------------------------------------------------------------------------
(* SpecInv: invalidateCachePattern called on its own, on a store that earlier *)
(* requests have filled; one request at a time                               *)

\* getOrSetCache called while no other request is under way
StartGosAlone(p) == Alone(p) /\ StartGos(p)

\* GET /api/petitions, sent while no other request is under way
StartGetListAlone(p) == Alone(p) /\ StartGetList(p)

\* invalidateCachePattern(pattern, kv) is called
StartInv(p) ==
    /\ Alone(p)
    /\ \E pattern \in {PetitionsPattern, PetitionPattern} :
         Begin(p, [IdleReq EXCEPT !.kind = "INV", !.before = kv, !.todo = <<pattern>>],
               "inv_list")
    /\ UNCHANGED <<kvBound, kv, petitions, nextId, images, kc, call>>

NextInv ==
    \/ \E p \in Procs : StartGosAlone(p)
    \/ \E p \in Procs : StartGetListAlone(p)
    \/ \E p \in Procs : GosGet(p)
    \/ \E p \in Procs : FetchGeneric(p)
    \/ \E p \in Procs : FetchList(p)
    \/ \E p \in Procs : GosSet(p)
    \/ \E p \in Procs : StartInv(p)
    \/ \E p \in Procs : InvList(p)
    \/ \E p \in Procs : InvDelete(p)
    \/ \E p \in Procs : Finish(p)

SpecInv == Init /\ [][NextInv]_vars

\* the call of invalidateCachePattern by client p has resolved
Invalidated(p) == req[p].kind = "INV" /\ pc[p] = "done"

\* the pattern it was called with
PatternOf(p) == CHOOSE pattern \in req[p].called : TRUE

\* C11: after invalidateCachePattern(prefix) has returned without a failure of
\* the store, no stored key starts with prefix, however many keys were stored, and
\* every key that does not start with prefix is still stored with its entry.
C11_InvalidationComplete ==
    \A p \in Procs :
        (Invalidated(p) /\ kvBound /\ ~req[p].invFail)
            => /\ \A k \in KvKeys : ~StartsWith(k, PatternOf(p))
               /\ \A k \in DOMAIN req[p].before :
                     ~StartsWith(k, PatternOf(p))
                        => (k \in KvKeys /\ kv[k] = req[p].before[k])

\* client p's request is a listing with a userId parameter and without an
\* authenticated user
AnonymousUserListing(p) ==
    /\ pc[p] # "idle"
    /\ req[p].kind = "GETLIST"
    /\ req[p].user = NoUser
    /\ UserIdOf(QueryOfKey(req[p].key)) # ""

\* C26: a listing with a userId parameter and no authenticated user is answered
\* 401 before the cache is looked at: no cached payload is returned, the loader
\* is not called and nothing is stored, also when the key has an entry.
C26_AuthBeforeCache ==
    \A p \in Procs :
        AnonymousUserListing(p) =>
            /\ pc[p] = "done"
            /\ req[p].status = 401
            /\ req[p].body = NoValue
            /\ req[p].loaderCalls = 0
            /\ ~req[p].stored /\ ~req[p].changed

\* the refused listing's key has an entry in the store
C26_Witness ==
    \E p \in Procs :
        /\ AnonymousUserListing(p)
        /\ req[p].status = 401
        /\ kvBound
        /\ req[p].key \in KvKeys

\* the row under id names an image
HasImageUrl(table, id) == id \in DOMAIN table /\ table[id].image_url # EmptyStr

\* C27: in every state of the create and update sequences, failures included,
\* a row whose image_url the handler has set has its object in the store, and
\* a step that sets a row's image_url finds the object already stored.
C27_ImageUrlImpliesObject ==
    /\ [](\A id \in PetitionIds : HasImageUrl(petitions, id) => FileName(id) \in images)
    /\ [][\A id \in PetitionIds :
            (HasImageUrl(petitions', id) /\ ~HasImageUrl(petitions, id))
                => FileName(id) \in images]_vars

\* a row carries an image_url while another request's image step has failed
C27_Witness ==
    \E id \in PetitionIds, p \in Procs :
        /\ HasImageUrl(petitions, id)
        /\ petitions[id].image_url = ImageUrl(id)
        /\ pc[p] = "done"
        /\ req[p].image /\ req[p].wrote /\ ~req[p].patched

-----------------------------------------------------------------------------
(* SpecNotFound: GET requests before and after the row is created *)

NextNotFound ==
    \/ \E p \in Procs : StartGet(p)
    \/ \E p \in Procs : StartGetList(p)
    \/ \E p \in Procs : GosGet(p)
    \/ \E p \in Procs : FetchPetition(p)
    \/ \E p \in Procs : FetchList(p)
    \/ \E p \in Procs : GosSet(p)
    \/ \E p \in Procs : StartPost(p)
    \/ \E p \in Procs : PostCreate(p)
    \/ \E p \in Procs : InvList(p)
    \/ \E p \in Procs : InvDelete(p)
    \/ \E p \in Procs : Finish(p)

SpecNotFound == Init /\ [][NextNotFound]_vars

\* the dataFetcher of client p's GET threw
LoaderThrew(p) ==
    /\ pc[p] = "done"
    /\ req[p].kind = "GET"
    /\ req[p].error \in {"Petition not found", "database error"}

\* the key of GET /api/petitions/{id}
PetitionKey(id) == generateCacheKey(PetitionPath(id), <<>>, PetitionPrefix)

\* C28: when the dataFetcher throws, getOrSetCache rejects with the error and
\* leaves the store as it was, so no entry is ever stored for a petition that
\* does not exist, and a GET that finds no entry for an existing petition
\* answers with the row read from the table.
C28_LoaderErrorNotCached ==
    /\ [](\A p \in Procs : LoaderThrew(p) => req[p].body = NoValue /\ req[p].loaded = NoValue)
    /\ [](\A id \in PetitionIds : PetitionKey(id) \in KvKeys => id \in DOMAIN petitions)
    /\ [][\A p \in Procs :
            pc[p] = "gos_fetch" /\ req[p].kind = "GET" /\ pc'[p] # "gos_fetch" =>
                /\ kv' = kv
                /\ IF req[p].id \in DOMAIN petitions /\ pc'[p] = "gos_set"
                   THEN req'[p].loaded = RowValue(petitions[req[p].id])
                   ELSE LoaderThrew(p)']_vars

\* one client was told 'Petition not found' and has not yet read the response
\* while, the row having been created since, another client's GET of the same
\* id is answered with the row, freshly read and stored
C28_Witness ==
    \E p, q \in Procs :
        /\ LoaderThrew(p)
        /\ req[p].error = "Petition not found"
        /\ pc[q] = "done"
        /\ req[q].kind = "GET"
        /\ req[q].id = req[p].id
        /\ req[q].status = 200
        /\ req[q].loaded = RowValue(petitions[req[q].id])
        /\ req[q].body = req[q].loaded
        /\ PetitionKey(req[q].id) \in KvKeys

-----------------------------------------------------------------------------
(* Claims about the handlers, under Spec *)

\* a read of the key now (the store answering) is a miss
ReadMisses(key) == GetCachedData(key, FALSE).value = Null

ListKeys == {generateCacheKey(ListPath, q, PetitionsPrefix) : q \in ListQueries}

\* client p holds the success response of a mutation
Mutated(p) ==
    /\ pc[p] = "done"
    /\ req[p].kind \in Mutations
    /\ req[p].status = 200

\* C1: after a successful POST, PUT or DELETE of petition P that ran with no other
\* request in flight, the next GET of the collection (any of its keys) and the next
\* GET of P miss the cache. Stated for a mutation whose invalidation met no store
\* failure, with the store answering the GETs.
C1_MutationThenMiss ==
    \A p \in Procs :
        (Mutated(p) /\ Solo(p) /\ ~req[p].invFail)
            => /\ \A k \in ListKeys : ReadMisses(k)
               /\ ReadMisses(PetitionKey(req[p].id))

\* C2: when a GET of petition P and a PUT of P have both completed, in whatever
\* order their steps interleaved, the cache does not hold pre-PUT data for P: an
\* entry under P's key is the row as the PUT left it. Stated for a PUT whose
\* invalidation met no store failure.
C2_NoStaleAfterGetAndPut ==
    \A g \in Procs, u \in Procs :
        ( /\ pc[g] = "done" /\ req[g].kind = "GET" /\ req[g].status = 200
          /\ Mutated(u) /\ req[u].kind = "PUT" /\ req[u].id = req[g].id
          /\ ~req[u].invFail
          /\ req[u].id \in DOMAIN petitions )
            => LET k == PetitionKey(req[u].id)
               IN k \in KvKeys => JSONparse(kv[k].data) = RowValue(petitions[req[u].id])

\* C3: every successful create, update and delete calls invalidateCachePattern
\* for both namespaces, 'petitions:' and 'petition:'.
C3_BothNamespacesInvalidated ==
    \A p \in Procs :
        Mutated(p) => req[p].called = {PetitionsPattern, PetitionPattern}

Checked(p) ==
    /\ req[p].kind \in {"PUT", "DELETE"}
    /\ pc[p] \notin {"idle", "own_lookup"}

\* ... and the result was a response (401, 404, 403, 500) instead of the user
Refused(p) ==
    /\ pc[p] = "done"
    /\ req[p].error \in {"Authentication required", "Petition not found",
                         "Forbidden", "Internal server error"}

\* C5: requirePetitionOwnership returns the user exactly when an identity is
\* resolved and the petition's created_by equals it; without an identity the
\* result is 401 'Authentication required' and the petition is never looked up;
\* a missing petition gives 404 and another owner 403.
C5_OwnershipVerdict ==
    \A p \in Procs :
        Checked(p)
            => /\ ~Refused(p) <=> (req[p].user # NoUser /\ req[p].ownerSeen = req[p].user)
               /\ req[p].user = NoUser
                    => /\ req[p].status = 401
                       /\ req[p].error = "Authentication required"
                       /\ req[p].ownerSeen = "unread"
               /\ (req[p].user # NoUser /\ req[p].ownerSeen = "missing")
                    => req[p].status = 404
               /\ (req[p].user # NoUser /\ req[p].ownerSeen \in Users \ {req[p].user})
                    => req[p].status = 403

C5_Witness ==
    \E p \in Procs, q \in Procs :
        /\ Checked(p) /\ req[p].user = NoUser /\ req[p].status = 401
        /\ Checked(q) /\ req[q].ownerSeen \in Users \ {req[q].user} /\ req[q].status = 403

\* C12: a failure of kv.list or kv.delete inside invalidateCachePattern is never
\* surfaced: the call resolves, the handler goes on to its remaining invalidation
\* calls, and the POST, PUT or DELETE that had committed its write returns its
\* success response.
C12_InvalidationFailureSwallowed ==
    \A p \in Procs :
        (req[p].kind \in Mutations /\ req[p].invFail)
            => /\ req[p].wrote
               /\ pc[p] \in {"inv_list", "inv_delete", "done"}
               /\ pc[p] = "done"
                    => /\ req[p].status = 200
                       /\ req[p].error = ""
                       /\ req[p].body # NoValue
                       /\ req[p].called = {PatternsOf(req[p].kind)[i] :
                                               i \in 1..Len(PatternsOf(req[p].kind))}

C12_Witness ==
    \E p \in Procs, q \in Procs :
        /\ p # q
        /\ pc[p] = "done" /\ req[p].kind = "DELETE" /\ req[p].invFail
        /\ req[p].status = 200
        /\ req[p].body = Message("Petition deleted successfully")
        /\ pc[q] = "done" /\ req[q].kind = "PUT" /\ req[q].invFail
        /\ req[q].status = 200

-----------------------------------------------------------------------------
(* Claims about getOrSetCache, under SpecCache *)

Oversized(data) == DataSize(JSONstringify(data)) > KVSizeLimit

\* the call of client p has returned after its dataFetcher resolved
ReturnedLoaded(p) ==
    /\ req[p].kind = "GOS"
    /\ pc[p] = "done"
    /\ req[p].loaded # NoValue

\* C7: a call whose lookup finds the key stored in the KV namespace (an earlier
\* call's result, not expired) returns without invoking the dataFetcher, whatever
\* value that earlier dataFetcher had returned.
C7_HitSkipsLoader ==
    \A p \in Procs :
        (req[p].kind = "GOS" /\ req[p].lookup = "found")
            => /\ req[p].loaderCalls = 0
               /\ pc[p] = "done"
               /\ req[p].status = 200

\* C8 as claimed: on a miss the dataFetcher is invoked exactly once, its result is
\* stored under the key with the ttl, and that result is returned.
C8_MissLoadsStoresReturns ==
    \A p \in Procs :
        ReturnedLoaded(p)
            => /\ req[p].loaderCalls = 1
               /\ req[p].stored
               /\ req[p].status = 200
               /\ req[p].body = req[p].loaded

\* C8 amended: on a miss the dataFetcher is invoked exactly once and its result is
\* returned; the result is stored under the key with the ttl unless its serialized
\* size exceeds the limit or the store's put fails (or there is no store).
C8_MissLoadsReturnsStoresIfPossible ==
    \A p \in Procs :
        ReturnedLoaded(p)
            => /\ req[p].loaderCalls = 1
               /\ req[p].status = 200
               /\ req[p].body = req[p].loaded
               /\ (~Oversized(req[p].loaded) /\ ~req[p].putFail) => req[p].stored

C8_Witness ==
    \E p \in Procs :
        /\ ReturnedLoaded(p)
        /\ req[p].stored
        /\ req[p].ttl = 10 * 60
        /\ req[p].key \in KvKeys
        /\ kv[req[p].key] = [data |-> JSONstringify(req[p].loaded), ttl |-> 10 * 60]

\* C9: a failure of the store never reaches the caller. A call rejects only when
\* its dataFetcher threw; a failed read (or a missing store) is a miss, so the
\* dataFetcher is invoked; a failed write leaves the store as it was; and the call
\* returns the dataFetcher's value.
C9_StoreFailuresAbsorbed ==
    \A p \in Procs :
        req[p].kind = "GOS"
            => /\ (pc[p] = "done" /\ req[p].status # 200)
                    => (req[p].status = 1 /\ req[p].error = "loader failed")
               /\ (pc[p] = "done" /\ req[p].lookup \in {"failed", "unbound"})
                    => req[p].loaderCalls = 1
               /\ req[p].putFail => ~req[p].changed
               /\ ReturnedLoaded(p)
                    => (req[p].status = 200 /\ req[p].body = req[p].loaded)

C9_Witness ==
    \E p \in Procs :
        /\ ReturnedLoaded(p)
        /\ kvBound
        /\ req[p].lookup = "failed"
        /\ req[p].putFail
        /\ req[p].status = 200
        /\ req[p].body = req[p].loaded

\* C10 as claimed: an oversized payload is not written, the caller receives it,
\* and afterwards a read of the key is a miss. Stated for a call that ran with no
\* other call in flight.
C10_OversizedThenMiss ==
    \A p \in Procs :
        (ReturnedLoaded(p) /\ Oversized(req[p].loaded) /\ Solo(p))
            => /\ ~req[p].changed
               /\ req[p].body = req[p].loaded
               /\ ReadMisses(req[p].key)

\* C10 amended: no entry of the store is ever larger than the limit; a call that
\* loaded an oversized payload leaves the store unchanged and returns the payload;
\* and a read of the key afterwards is a miss when the store held no entry for it
\* at the lookup and no other call ran meanwhile.
C10_OversizedNeverStored ==
    /\ \A k \in KvKeys : DataSize(kv[k].data) <= KVSizeLimit
    /\ \A p \in Procs :
        (ReturnedLoaded(p) /\ Oversized(req[p].loaded))
            => /\ ~req[p].changed
               /\ req[p].status = 200
               /\ req[p].body = req[p].loaded
               /\ (Solo(p) /\ req[p].lookup = "absent") => ReadMisses(req[p].key)

C10_Witness ==
    \E p \in Procs :
        /\ ReturnedLoaded(p)
        /\ Oversized(req[p].loaded)
        /\ kvBound
        /\ ~req[p].putFail
        /\ Solo(p)
        /\ req[p].lookup = "absent"
        /\ ReadMisses(req[p].key)
        /\ req[p].body = req[p].loaded

-----------------------------------------------------------------------------
(* generateETag and createCachedResponse; SpecETag: two requests for a payload *)

\* payloads have at most this many items
MaxItems == 2

\* the payloads: JSON arrays of digits
RECURSIVE DigitSeqs(_)
DigitSeqs(n) ==
    IF n = 0 THEN {<<>>}
    ELSE LET shorter == DigitSeqs(n - 1)
         IN shorter \cup {Append(q, d) : q \in {t \in shorter : Len(t) = n - 1},
                                         d \in {0, 1, 7}}

EtagPayloads == DigitSeqs(MaxItems)

\* JSON.stringify(data) as UTF-16 code units: '[' is 91, ',' 44, ']' 93, '0' 48
RECURSIVE ItemCodes(_)
ItemCodes(items) ==
    IF items = <<>> THEN <<>>
    ELSE <<48 + Head(items)>>
         \o (IF Tail(items) = <<>> THEN <<>> ELSE <<44>> \o ItemCodes(Tail(items)))

JsonText(data) == <<91>> \o ItemCodes(data) \o <<93>>

\* a 32-bit integer as its two 16-bit halves
Half == 65536

\* hash = (hash << 5) - hash + char; hash = hash & hash
\* 31 * hash + char, wrapped to 32 bits
HashStep(hash, char) ==
    LET lo == 31 * hash.lo + char
    IN [hi |-> (31 * hash.hi + (lo \div Half)) % Half, lo |-> lo % Half]

RECURSIVE HashOf(_, _)
HashOf(hash, str) ==
    IF str = <<>> THEN hash
    ELSE HashOf(HashStep(hash, Head(str)), Tail(str))

\* Math.abs(hash) of the signed 32-bit value
MathAbs(hash) ==
    IF hash.hi < Half \div 2 THEN hash
    ELSE [hi |-> (Half - 1 - hash.hi + (IF hash.lo = 0 THEN 1 ELSE 0)) % Half,
          lo |-> (Half - hash.lo) % Half]

\* `"${Math.abs(hash).toString(36)}"`: the quoted number (toString(36) is
\* one-to-one on the non-negative integers)
generateETag(data) ==
    [quoted |-> MathAbs(HashOf([hi |-> 0, lo |-> 0], JsonText(data)))]

\* request.headers.get('If-None-Match') when the header is absent
NoHeader == [absent |-> TRUE]

\* W/"...": the weak form of a tag
Weak(etag) == [weak |-> etag.quoted]

\* new Response(null, ...)
NoBody == [empty |-> TRUE]

\* createCachedResponse(data, request, env, cacheMaxAge), with the request's
\* If-None-Match header
createCachedResponse_NoConditional(data, ifNoneMatch, cacheMaxAge) ==
    LET etag == generateETag(data)
    IN [status |-> 200,
        body |-> JsonText(data),
        headers |-> [ContentType |-> "application/json",
                     ETag |-> etag,
                     CacheControl |-> <<"public, max-age=", cacheMaxAge>>,
                     LastModified |-> "now"]]

createCachedResponse(data, ifNoneMatch, cacheMaxAge) ==
    LET etag == generateETag(data)
        clientETag == ifNoneMatch
    IN IF clientETag = etag
       THEN [status |-> 304,
             body |-> NoBody,
             headers |-> [ETag |-> etag,
                          CacheControl |-> <<"public, max-age=", cacheMaxAge>>]]
       ELSE [status |-> 200,
             body |-> JsonText(data),
             headers |-> [ContentType |-> "application/json",
                          ETag |-> etag,
                          CacheControl |-> <<"public, max-age=", cacheMaxAge>>,
                          LastModified |-> "now"]]

\* no response yet
NoResponse == [status |-> 0]

\* the handlers pass 5 * 60 or 10 * 60
InitETag ==
    /\ kvBound = TRUE
    /\ kv = <<>>
    /\ petitions = <<>>
    /\ nextId = 1
    /\ images = {}
    /\ quiet = "nobody"
    /\ pc = [p \in Procs |-> "idle"]
    /\ req = [p \in Procs |-> IdleReq]
    /\ kc = KcIdle
    /\ \E data \in EtagPayloads, maxAge \in {5 * 60, 10 * 60} :
         call = [fn |-> "createCachedResponse", data |-> data, maxAge |-> maxAge,
                 first |-> NoResponse, later |-> data, header |-> NoHeader,
                 second |-> NoResponse]

\* the first request, which has no tag for the resource yet
FirstRequest ==
    /\ call.fn = "createCachedResponse"
    /\ call.first = NoResponse
    /\ call' = [call EXCEPT !.first = createCachedResponse(call.data, NoHeader, call.maxAge)]
    /\ UNCHANGED <<kvBound, kv, petitions, nextId, images, pc, req, quiet, kc>>

\* the second request: the payload is by then `later` (the same or another), and
\* the client sends no tag, the tag it was given, its weak form, or another tag
SecondRequest ==
    /\ call.fn = "createCachedResponse"
    /\ call.first # NoResponse
    /\ call.second = NoResponse
    /\ \E later \in EtagPayloads,
          header \in {NoHeader, call.first.headers.ETag, Weak(call.first.headers.ETag)}
                      \cup {generateETag(d) : d \in EtagPayloads} :
         call' = [call EXCEPT !.later = later, !.header = header,
                              !.second = createCachedResponse(later, header, call.maxAge)]
    /\ UNCHANGED <<kvBound, kv, petitions, nextId, images, pc, req, quiet, kc>>

NextETag == FirstRequest \/ SecondRequest

SpecETag == InitETag /\ [][NextETag]_vars

\* both requests have been answered and the payload was the same for both
SamePayloadTwice ==
    /\ call.fn = "createCachedResponse"
    /\ call.second # NoResponse
    /\ call.later = call.data

\* C13: for an unchanged payload, a second request whose If-None-Match equals the
\* ETag of the first response gets 304 with no body; a second request with no or a
\* different If-None-Match gets the payload with the same ETag and the
\* Cache-Control header.
C13_ConditionalRead ==
    SamePayloadTwice
        => /\ call.first.status = 200
           /\ call.first.body = JsonText(call.data)
           /\ IF call.header = call.first.headers.ETag
              THEN /\ call.second.status = 304
                   /\ call.second.body = NoBody
              ELSE /\ call.second.status = 200
                   /\ call.second.body = JsonText(call.data)
                   /\ call.second.headers.ETag = call.first.headers.ETag
                   /\ call.second.headers.CacheControl = <<"public, max-age=", call.maxAge>>

C13_Witness ==
    /\ SamePayloadTwice
    /\ call.data = <<1, 7>>
    /\ call.header = call.first.headers.ETag
    /\ call.second.status = 304
    /\ call.second.body = NoBody

-----------------------------------------------------------------------------
(* getAuthenticatedUser; SpecAuth: one call with every outcome of its steps *)

\* session.user values: none, one without id, one with the empty id, real ones
SessionUsers ==
    {Undefined}
    \cup {[id |-> id, email |-> email, name |-> Str("n"), image |-> Undefined] :
            id \in {Undefined, Str("")} \cup {Str(u) : u \in Users},
            email \in {Str("e1"), Str("e2")}}

\* what response.json() resolves to: null, or an object with or without user
Sessions == {Null} \cup {[user |-> u] : u \in SessionUsers}

\* the step that throws, if any: new URL(request.url), createAuthConfig(env),
\* Auth(sessionRequest, authConfig), response.json()
ThrowsAt(world, step) == world.throws = step

\* !session?.user?.id
HasNoUserId(session) ==
    \/ session = Null
    \/ session.user = Undefined
    \/ session.user.id = Undefined
    \/ session.user.id = Str("")

\* getAuthenticatedUser(request, env) in a world that fixes what each step does:
\* the user or null, and whether the promise rejects
getAuthenticatedUser_NoCatch(world) ==
    IF ThrowsAt(world, "url") \/ ThrowsAt(world, "config") \/ ThrowsAt(world, "auth")
    THEN [value |-> Null, threw |-> TRUE]
    ELSE IF ~world.ok THEN [value |-> Null, threw |-> FALSE]
    ELSE IF ThrowsAt(world, "json") THEN [value |-> Null, threw |-> TRUE]
    ELSE IF HasNoUserId(world.session) THEN [value |-> Null, threw |-> FALSE]
    ELSE [value |-> [id |-> world.session.user.id,
                     email |-> world.session.user.email,
                     name |-> world.session.user.name,
                     image |-> world.session.user.image],
          threw |-> FALSE]

getAuthenticatedUser(world) ==
    IF ThrowsAt(world, "url") \/ ThrowsAt(world, "config") \/ ThrowsAt(world, "auth")
    THEN [value |-> Null, threw |-> FALSE]
    ELSE IF ~world.ok THEN [value |-> Null, threw |-> FALSE]
    ELSE IF ThrowsAt(world, "json") THEN [value |-> Null, threw |-> FALSE]
    ELSE IF HasNoUserId(world.session) THEN [value |-> Null, threw |-> FALSE]
    ELSE [value |-> [id |-> world.session.user.id,
                     email |-> world.session.user.email,
                     name |-> world.session.user.name,
                     image |-> world.session.user.image],
          threw |-> FALSE]

InitAuth ==
    /\ kvBound = TRUE
    /\ kv = <<>>
    /\ petitions = <<>>
    /\ nextId = 1
    /\ images = {}
    /\ quiet = "nobody"
    /\ pc = [p \in Procs |-> "idle"]
    /\ req = [p \in Procs |-> IdleReq]
    /\ kc = KcIdle
    /\ \E throws \in {"none", "url", "config", "auth", "json"},
          ok \in BOOLEAN, session \in Sessions :
         call = [fn |-> "getAuthenticatedUser",
                 world |-> [throws |-> throws, ok |-> ok, session |-> session],
                 result |-> NoValue]

ResolveUser ==
    /\ call.fn = "getAuthenticatedUser"
    /\ call.result = NoValue
    /\ call' = [call EXCEPT !.result = getAuthenticatedUser(call.world)]
    /\ UNCHANGED <<kvBound, kv, petitions, nextId, images, pc, req, quiet, kc>>

NextAuth == ResolveUser

SpecAuth == InitAuth /\ [][NextAuth]_vars

\* the session endpoint answered OK with a session that carries a user id, and
\* no step raised an error
SessionCarriesUser(world) ==
    /\ world.throws = "none"
    /\ world.ok
    /\ world.session # Null
    /\ world.session.user # Undefined
    /\ world.session.user.id \in {Str(u) : u \in Users}

\* C14: getAuthenticatedUser never throws; it resolves to null when the session
\* endpoint answers non-OK, the session has no user id or any step raises an
\* error, and to the session's user exactly when the answer is OK and carries a
\* user id.
C14_AuthNeverThrows ==
    (call.fn = "getAuthenticatedUser" /\ call.result # NoValue)
        => /\ ~call.result.threw
           /\ IF SessionCarriesUser(call.world)
              THEN /\ call.result.value # Null
                   /\ call.result.value.id = call.world.session.user.id
              ELSE call.result.value = Null

C14_Witness ==
    /\ call.fn = "getAuthenticatedUser"
    /\ call.result # NoValue
    /\ call.world.throws = "json"
    /\ call.world.ok
    /\ call.result = [value |-> Null, threw |-> FALSE]

-----------------------------------------------------------------------------
(* SpecSchema: both schemas applied to one request body *)

\* absent, not a string, one character short, the shortest, padded to twelve
\* characters around eight, one character too long
TitleInputs ==
    {Undefined, Num(5), Text(0, 9, 0), Text(0, 10, 0), Text(2, 8, 2), Text(0, 151, 0)}

\* absent, one character short, the shortest, padded to a hundred around 98
DescriptionInputs == {Undefined, Text(0, 99, 0), Text(0, 100, 0), Text(1, 98, 1)}

TypeInputs == {Undefined, Str("local"), Str("national"), Str("global")}

\* absent, empty, whitespace-only, padded text, not a string
LocationInputs == {Undefined, Text(0, 0, 0), Text(2, 0, 0), Text(1, 6, 1), Num(5)}

TargetCountInputs ==
    {Undefined, Null, Str("1000"), NaN, Frac(0), Frac(1), Frac(1000000),
     Num(0 - 1), Num(0), Num(1), Num(500), Num(1000000), Num(1000001)}

StatusInputs == {Undefined, Str("active")}

\* the bodies handed to safeParse; created_by is what the POST handler sets
SchemaInputs ==
    { [EmptyObject EXCEPT !.title = t, !.description = d, !.type = ty,
                          !.location = l, !.target_count = n, !.status = st,
                          !.created_by = Str("u1")] :
        t \in TitleInputs, d \in DescriptionInputs, ty \in TypeInputs,
        l \in LocationInputs, n \in TargetCountInputs, st \in StatusInputs }

InitSchema ==
    /\ kvBound = TRUE
    /\ kv = <<>>
    /\ petitions = <<>>
    /\ nextId = 1
    /\ images = {}
    /\ quiet = "nobody"
    /\ pc = [p \in Procs |-> "idle"]
    /\ req = [p \in Procs |-> IdleReq]
    /\ kc = KcIdle
    /\ \E input \in SchemaInputs :
         call = [fn |-> "safeParse", input |-> input,
                 created |-> NoValue, updated |-> NoValue]

\* createPetitionSchema.safeParse(input) and updatePetitionSchema.safeParse(input)
SafeParse ==
    /\ call.fn = "safeParse"
    /\ call.created = NoValue
    /\ call' = [call EXCEPT !.created = createPetitionSchema(call.input),
                            !.updated = updatePetitionSchema(call.input)]
    /\ UNCHANGED <<kvBound, kv, petitions, nextId, images, pc, req, quiet, kc>>

NextSchema == SafeParse

SpecSchema == InitSchema /\ [][NextSchema]_vars

\* both schemas have been applied to the body
SchemasApplied == call.fn = "safeParse" /\ call.created # NoValue

\* the formatted errors name the field
NamesField(result, field) ==
    \E i \in 1..Len(result.issues) : formatZodError(result.issues)[i].field = field

\* type 'local' with a location that is absent, empty or whitespace-only
LocalWithoutLocation(input) ==
    /\ input.type = Str("local")
    /\ \/ input.location = Undefined
       \/ IsText(input.location) /\ input.location.core = 0

\* some key of the input has a type error under the schema's shape: a required
\* key is missing or a value is of the wrong type
HasTypeError(result) == Aborted(result.issues)

\* every key but location, target_count and status passes its own checks
OtherwiseValidCreate(input) ==
    /\ input.title \in {Text(0, 10, 0), Text(2, 8, 2)}
    /\ input.description = Text(0, 100, 0)
    /\ input.target_count \in {Undefined, Num(1), Num(500), Num(1000000)}

\* the input passes but for what the claim is about
LocationAccepted(input) ==
    \/ input.type = Str("local") /\ input.location = Text(1, 6, 1)
    \/ input.type = Str("national") /\ input.location = Undefined

LocationIffLocal(data) == Present(data, "location") <=> data.type = Str("local")

\* C16 as stated: every payload accepted by either schema carries a location
\* exactly when its type is 'local'.
C16_LocationExactlyWhenLocal ==
    SchemasApplied =>
        /\ call.created.success => LocationIffLocal(call.created.data)
        /\ call.updated.success => LocationIffLocal(call.updated.data)

\* a text without surrounding whitespace whose length is between lo and hi
TrimmedBetween(v, lo, hi) ==
    IsText(v) /\ v.lead = 0 /\ v.trail = 0 /\ lo <= Length(v) /\ Length(v) <= hi

\* the title and the description of an accepted payload, where present
TitleAndDescriptionBounds(result) ==
    result.success =>
        /\ Present(result.data, "title") => TrimmedBetween(result.data.title, 10, 150)
        /\ Present(result.data, "description")
              => TrimmedBetween(result.data.description, 100, Length(result.data.description))

\* C29: every title in the validated output of either schema is trimmed and
\* has between 10 and 150 characters; every description in the validated
\* output is trimmed and has at least 100 characters.
C29_TitleAndDescriptionBounds ==
    SchemasApplied =>
        /\ TitleAndDescriptionBounds(call.created)
        /\ TitleAndDescriptionBounds(call.updated)

\* a location with at least one character, without surrounding whitespace
TrimmedNonEmpty(v) == IsText(v) /\ v.core > 0 /\ v.lead = 0 /\ v.trail = 0

\* C16, amended: every payload of type 'local' accepted by either schema carries
\* a non-empty, trimmed location; a payload that is not local may carry one.
C16_LocalCarriesLocation ==
    SchemasApplied =>
        /\ (call.created.success /\ call.created.data.type = Str("local"))
              => TrimmedNonEmpty(call.created.data.location)
        /\ (call.updated.success /\ call.updated.data.type = Str("local"))
              => TrimmedNonEmpty(call.updated.data.location)

\* a local body with a padded location is accepted by both schemas, trimmed
C16_Witness ==
    /\ SchemasApplied
    /\ call.input.type = Str("local")
    /\ call.input.location = Text(1, 6, 1)
    /\ call.created.success
    /\ call.created.data.location = Text(0, 6, 0)
    /\ call.updated.success
    /\ call.updated.data.location = Text(0, 6, 0)

\* an integer n with 1 <= n <= 1,000,000
IntegerInRange(v) == IsNumber(v) /\ v.number = "int" /\ v.n >= 1 /\ v.n <= 1000000

\* every key but target_count passes: a national petition with a valid title
\* and description
ValidButTargetCount(input) ==
    /\ input.title \in {Text(0, 10, 0), Text(2, 8, 2)}
    /\ input.description = Text(0, 100, 0)
    /\ input.type = Str("national")
    /\ input.location \in {Undefined, Text(0, 0, 0), Text(2, 0, 0), Text(1, 6, 1)}

\* C19: a provided target_count is accepted by both schemas exactly when it is
\* an integer between 1 and 1,000,000, and is then kept as it is; zero, negative,
\* larger, non-integer, NaN and non-number values are rejected with an error
\* whose field is 'target_count'.
C19_TargetCountRange ==
    (SchemasApplied /\ Present(call.input, "target_count")) =>
        LET n == call.input.target_count
        IN IF IntegerInRange(n)
           THEN /\ ~NamesField(call.created, "target_count")
                /\ ~NamesField(call.updated, "target_count")
                /\ ValidButTargetCount(call.input)
                      => /\ call.created.success /\ call.created.data.target_count = n
                         /\ call.updated.success /\ call.updated.data.target_count = n
           ELSE /\ ~call.created.success /\ NamesField(call.created, "target_count")
                /\ ~call.updated.success /\ NamesField(call.updated, "target_count")

\* 1.5 in an otherwise valid body: rejected by both schemas for not being an
\* integer, and for nothing else
C19_Witness ==
    /\ SchemasApplied
    /\ ValidButTargetCount(call.input)
    /\ call.input.target_count = Frac(1)
    /\ ~call.created.success
    /\ formatZodError(call.created.issues) =
          << [field |-> "target_count", message |-> "Target count must be an integer"] >>
    /\ ~call.updated.success
    /\ formatZodError(call.updated.issues) = formatZodError(call.created.issues)

-----------------------------------------------------------------------------
(* SpecKey: generateCacheKey applied to the query strings of two requests *)

\* name/value pairs of a query string, as url.searchParams.forEach yields them
ParamPairs ==
    { <<"category[]", "1">>, <<"category[]", "2">>,
      <<"type", "local">>, <<"limit", "1">> }

RECURSIVE SeqsUpTo(_, _)
SeqsUpTo(S, n) ==
    IF n = 0 THEN {<<>>}
    ELSE LET shorter == SeqsUpTo(S, n - 1)
         IN shorter \cup {Append(q, x) : q \in {t \in shorter : Len(t) = n - 1}, x \in S}

\* the query strings of at most MaxParams parameters
KeyQueries == SeqsUpTo(ParamPairs, MaxParams)

\* number of occurrences of a pair in a query string
Occurrences(q, x) == Cardinality({i \in 1..Len(q) : q[i] = x})

\* the two query strings hold the same pairs, each as often: they differ in order only
SameParams(a, b) == \A x \in ParamPairs : Occurrences(a, x) = Occurrences(b, x)

InitKey ==
    /\ kvBound = TRUE
    /\ kv = <<>>
    /\ petitions = <<>>
    /\ nextId = 1
    /\ images = {}
    /\ quiet = "nobody"
    /\ pc = [p \in Procs |-> "idle"]
    /\ req = [p \in Procs |-> IdleReq]
    /\ \E a \in KeyQueries, b \in KeyQueries :
         kc = [KcIdle EXCEPT !.a = a, !.b = b]
    /\ call = NoCall

\* both requests reach GET /api/petitions, which computes their keys
ComputeKeys ==
    /\ ~kc.done
    /\ kc' = [kc EXCEPT !.ka = generateCacheKey(ListPath, kc.a, PetitionsPrefix),
                        !.kb = generateCacheKey(ListPath, kc.b, PetitionsPrefix),
                        !.done = TRUE]
    /\ UNCHANGED <<kvBound, kv, petitions, nextId, images, pc, req, quiet, call>>

NextKey == ComputeKeys

SpecKey == InitKey /\ [][NextKey]_vars

\* C6: two requests with the same path whose query parameters are the same pairs
\* in a different order (repeated names such as category[] included) get the
\* identical cache key.
C6_OrderInsensitiveKey ==
    (kc.done /\ SameParams(kc.a, kc.b)) => kc.ka = kc.kb

-----------------------------------------------------------------------------
(* SpecList: the AllPetitions page (ReviewPetition.tsx): its state, its     *)
(* load effect and its click handlers, with loads resolving in any order   *)

\* const PETITIONS_PER_PAGE = 12
PETITIONS_PER_PAGE == 12

\* loads under way at once
MaxLoads == 2

\* the highest page 'Load More' is pressed to
MaxPage == 3

\* pages held in the list
MaxShown == 3

Filters == {"all", "local"}

CategoryValues == {"1"}

\* petitions the server holds for a type filter and a selection of categories:
\* two full pages and a half, exactly one page, less than a page
TotalOf(filter, categories) ==
    IF categories # {} THEN 5
    ELSE IF filter = "all" THEN 30
    ELSE 12

\* petitionApi.getAll({limit, offset, type, categories}): the slice of at most
\* `limit` petitions from `offset` on, as one run of items of that query
getAll(limit, offset, filter, categories) ==
    LET left == TotalOf(filter, categories) - offset
        length == IF left <= 0 THEN 0 ELSE IF left < limit THEN left ELSE limit
    IN [filter |-> filter, categories |-> categories, offset |-> offset, length |-> length]

\* [...prev, ...data]
Spread(prev, data) == IF data.length = 0 THEN prev ELSE Append(prev, data)

\* the state after the first render, the mount effect's load under way
Mounted ==
    [fn |-> "AllPetitions",
     petitions |-> <<>>,
     loading |-> TRUE,
     error |-> "",
     filter |-> "all",
     page |-> 1,
     hasMore |-> TRUE,
     selectedCategories |-> {},
     loads |-> <<[page |-> 1, filter |-> "all", selectedCategories |-> {},
                  after |-> "mount"]>>,
     last |-> <<"started", "mount">>]

InitList ==
    /\ kvBound = TRUE
    /\ kv = <<>>
    /\ petitions = <<>>
    /\ nextId = 1
    /\ images = {}
    /\ quiet = "nobody"
    /\ pc = [p \in Procs |-> "idle"]
    /\ req = [p \in Procs |-> IdleReq]
    /\ kc = KcIdle
    /\ call = Mounted

\* the user goes on clicking: bounds on the loads under way and on the list
MayClick ==
    /\ call.fn = "AllPetitions"
    /\ Len(call.loads) < MaxLoads
    /\ Len(call.petitions) + Len(call.loads) < MaxShown

\* useEffect(() => { load() }, [page, filter, selectedCategories]): the effect
\* of the render with state s; setLoading(true), then the request is sent
load(s, event) ==
    [s EXCEPT !.loading = TRUE,
              !.loads = Append(@, [page |-> s.page, filter |-> s.filter,
                                   selectedCategories |-> s.selectedCategories,
                                   after |-> event]),
              !.last = <<"started", event>>]

\* onValueChange={value => setFilter(value as PetitionLocation)}
setFilter ==
    /\ MayClick
    /\ \E value \in Filters \ {call.filter} :
         call' = load([call EXCEPT !.filter = value], "setFilter")
    /\ UNCHANGED <<kvBound, kv, petitions, nextId, images, pc, req, quiet, kc>>

\* handleCategorySelect(value): toggles the category, setPage(1)
handleCategorySelect ==
    /\ MayClick
    /\ \E value \in CategoryValues :
         LET isSelected == value \in call.selectedCategories
             selected == IF isSelected THEN call.selectedCategories \ {value}
                         ELSE call.selectedCategories \cup {value}
         IN call' = load([call EXCEPT !.selectedCategories = selected, !.page = 1],
                         "handleCategorySelect")
    /\ UNCHANGED <<kvBound, kv, petitions, nextId, images, pc, req, quiet, kc>>

\* handleCategoryClear: setSelectedCategories([]), setPage(1); the new array
\* is a new dependency of the effect, whatever the selection was
handleCategoryClear ==
    /\ MayClick
    /\ call' = load([call EXCEPT !.selectedCategories = {}, !.page = 1],
                    "handleCategoryClear")
    /\ UNCHANGED <<kvBound, kv, petitions, nextId, images, pc, req, quiet, kc>>

\* the branch of the page's body that is rendered
Rendered(s) ==
    IF s.loading /\ s.petitions = <<>> THEN "skeleton"
    ELSE IF s.error # "" THEN "error"
    ELSE IF s.petitions = <<>> THEN "empty"
    ELSE "list"

\* handleLoadMore: setPage(prev => prev + 1); the button is shown under the
\* list while hasMore, and disabled while loading
handleLoadMore ==
    /\ MayClick
    /\ Rendered(call) = "list"
    /\ call.hasMore /\ ~call.loading
    /\ call.page < MaxPage
    /\ call' = load([call EXCEPT !.page = @ + 1], "handleLoadMore")
    /\ UNCHANGED <<kvBound, kv, petitions, nextId, images, pc, req, quiet, kc>>

\* handleTryAgain: setPage(1); the button is shown with the error. With the
\* page at 1 already no state changes, so the effect does not run
handleTryAgain ==
    /\ MayClick
    /\ Rendered(call) = "error"
    /\ call' = IF call.page = 1
               THEN [call EXCEPT !.last = <<"ignored", "handleTryAgain">>]
               ELSE load([call EXCEPT !.page = 1], "handleTryAgain")
    /\ UNCHANGED <<kvBound, kv, petitions, nextId, images, pc, req, quiet, kc>>

\* the sequence without its i-th element
Without(seq, i) == [j \in 1..(Len(seq) - 1) |-> IF j < i THEN seq[j] ELSE seq[j + 1]]

\* a load's request resolves: setPetitions(prev => page === 1 ? data : [...prev,
\* ...data]), setHasMore(data.length === PETITIONS_PER_PAGE), setLoading(false)
loadResolves ==
    /\ call.fn = "AllPetitions"
    /\ \E i \in 1..Len(call.loads) :
         LET l == call.loads[i]
             offset == (l.page - 1) * PETITIONS_PER_PAGE
             data == getAll(PETITIONS_PER_PAGE, offset, l.filter, l.selectedCategories)
         IN call' = [call EXCEPT
                       !.petitions = IF l.page = 1 THEN Spread(<<>>, data)
                                     ELSE Spread(@, data),
                       !.hasMore = (data.length = PETITIONS_PER_PAGE),
                       !.loading = FALSE,
                       !.loads = Without(@, i),
                       !.last = <<"resolved", l.after>>]
    /\ UNCHANGED <<kvBound, kv, petitions, nextId, images, pc, req, quiet, kc>>

\* a load's request rejects: setError(...), setLoading(false)
loadRejects ==
    /\ call.fn = "AllPetitions"
    /\ \E i \in 1..Len(call.loads) :
         call' = [call EXCEPT
                    !.error = "Failed to load petitions. Please try again later.",
                    !.loading = FALSE,
                    !.loads = Without(@, i),
                    !.last = <<"rejected", call.loads[i].after>>]
    /\ UNCHANGED <<kvBound, kv, petitions, nextId, images, pc, req, quiet, kc>>

NextList ==
    \/ setFilter
    \/ handleCategorySelect
    \/ handleCategoryClear
    \/ handleLoadMore
    \/ handleTryAgain
    \/ loadResolves
    \/ loadRejects

SpecList == InitList /\ [][NextList]_vars

\* pages 1..page of a query, as the list holds them
RECURSIVE PagesUpTo(_, _, _)
PagesUpTo(page, filter, categories) ==
    IF page = 0 THEN <<>>
    ELSE Spread(PagesUpTo(page - 1, filter, categories),
                getAll(PETITIONS_PER_PAGE, (page - 1) * PETITIONS_PER_PAGE,
                       filter, categories))

\* every load has resolved or rejected
Settled == call.fn = "AllPetitions" /\ call.loads = <<>>

\* C30: once all loads have settled, the list holds no item fetched under
\* another type filter or selection of categories; if no load has failed it
\* holds exactly pages 1..page of the current ones; and when a load started
\* by 'Try Again' has resolved, no error is displayed.
C30_ListMatchesFilters ==
    Settled =>
        /\ \A i \in 1..Len(call.petitions) :
              /\ call.petitions[i].filter = call.filter
              /\ call.petitions[i].categories = call.selectedCategories
        /\ call.error = ""
              => call.petitions = PagesUpTo(call.page, call.filter, call.selectedCategories)
        /\ call.last = <<"resolved", "handleTryAgain">> => Rendered(call) # "error"

====
